---- MODULE Spec2Model ----
(***************************************************************************)
(* Model of the measurement orchestration engine of theOneControl_v1:      *)
(* StageController.send_command (stage_controller.py) and the per-cycle    *)
(* command loop of main() (main.py), with the frame averaging of           *)
(* SpectrometerController.read_spectrum and the post-processing of         *)
(* data_processor.process_spectral_data.                                   *)
(*                                                                         *)
(* Strings that the code parses or compares are sequences of one-character *)
(* strings, so that formatting (f-strings) and parsing (startswith, int,   *)
(* re.search, strip) are computed and not assumed.  Durations are in       *)
(* tenths of a second.  Python's None is the empty sequence, a present     *)
(* value v is <<v>>.                                                       *)
(***************************************************************************)
EXTENDS Integers, Sequences, FiniteSets, TLC

\* ------------------------------------------------------------------------
\* Bounds of the model
\* ------------------------------------------------------------------------
MaxLen == 2        \* longest command sequence replayed by a cycle
MaxPoints == 2     \* largest no_of_point_per_cycle
MaxDrop == 1       \* largest no_of_drop
MaxAverage == 2    \* largest no_of_average
MaxCycles == 2     \* largest np_of_cycle
MaxCalls == 2      \* send_command calls made by the stand-alone caller
Pixels == 2        \* sensor columns of a RawSpectrum (1280 on the device)
Level == 6         \* intensity step of the lit sample frame
CanonStep == 280   \* step of the canonical wavelength axis (0.5 nm in the code)
WaitSeconds == 12  \* duration carried by the wait command of the sequences
MaxRounds == 2     \* rounds of the averaging autoscaler that are followed
MaxFrame == 3      \* longest raw row handed to the frame decoder

\* ------------------------------------------------------------------------
\* Program constants
\* ------------------------------------------------------------------------
default_timeout == 20      \* StageController(timeout=2): 2 s
max_retries == 3           \* StageController(max_retries=3)
BACKOFF == 5               \* time.sleep(0.5) in send_command
SETTLE == 2                \* time.sleep(0.2) around an acquisition
LONG_TIMEOUT == 150        \* stage.send_command(command, 15): 15 s
MLS_THRESHOLD == 20        \* int(command[4:-1]) > 20
TENTHS == 10               \* tenths of a second per second
FAST_TIMEOUT == 1          \* serial_timeout = 0.1 in fast mode
WL_START == 350            \* start_wl of the default wavelength axis
WL_END == 1050             \* end_wl of the default wavelength axis
CANON_START == 400         \* np.arange(400, 960.5, 0.5)
CANON_END == 960           \* np.arange(400, 960.5, 0.5)
DEFAULT_EXP == 300         \* SpectrometerController.__init__(exp=300)
AUTOSCALE_CAP == 20        \* for i in range(20)
WARMUP_READS == 4          \* read_spectrum_single() four times, discarded
EXP_MAX == 899             \* min(int(exp * pias), 899)
EXP_MIN == 1               \* max(1, exp)
MOVE_TIMEOUT == 100        \* send_command(f"$MLS...#", 10): 10 s
LAMP_TIMEOUT == 20         \* send_command("$SLD0,1#", 2): 2 s
LAMP_SETTLE == 150         \* time.sleep(15)
PULSE_NUM == 196           \* pulse_distance == 0.0196 = 196 / 10000
PULSE_DEN == 10000         \* pulse_distance == 0.0196 = 196 / 10000
MIN_PULSES == 5            \* if pulses_per_point >= 5
AUTO_END == 1000           \* np.arange(400, 1000.5, 0.5)
WORD == 65536              \* np.uint16 holds values modulo 2^16
HIGH_SCALE == 16           \* high_bits << 4
LOW_OFFSET == 128          \* low_bits - 128

None == <<>>
Some(v) == <<v>>

\* ------------------------------------------------------------------------
\* Text: formatting and parsing
\* ------------------------------------------------------------------------
DigitChars == <<"0", "1", "2", "3", "4", "5", "6", "7", "8", "9">>

IsDigit(c) == \E d \in 1..10 : DigitChars[d] = c

DigitVal(c) == (CHOOSE d \in 1..10 : DigitChars[d] = c) - 1

\* f"{n}" for a non-negative integer n
RECURSIVE Str(_)
Str(n) == IF n < 10 THEN <<DigitChars[n + 1]>>
          ELSE Str(n \div 10) \o <<DigitChars[(n % 10) + 1]>>

\* int(s) for a string of decimal digits
RECURSIVE ParseInt(_)
ParseInt(s) == IF Len(s) = 0 THEN 0
               ELSE 10 * ParseInt(SubSeq(s, 1, Len(s) - 1)) + DigitVal(s[Len(s)])

\* str.startswith
StartsWith(s, p) == Len(s) >= Len(p) /\ SubSeq(s, 1, Len(p)) = p

\* re.search(r'\d+', s).group(): the first maximal run of digits of s
HasDigit(s) == \E k \in 1..Len(s) : IsDigit(s[k])

FirstDigits(s) ==
    LET a == CHOOSE k \in 1..Len(s) :
                 IsDigit(s[k]) /\ \A j \in 1..(k - 1) : ~IsDigit(s[j])
        b == CHOOSE k \in a..Len(s) :
                 /\ \A j \in a..k : IsDigit(s[j])
                 /\ (k = Len(s) \/ ~IsDigit(s[k + 1]))
    IN  SubSeq(s, a, b)

\* str.strip(): leading and trailing whitespace removed
IsSpace(c) == c \in {" ", "\n", "\r", "\t"}

RECURSIVE LStrip(_)
LStrip(s) == IF Len(s) > 0 /\ IsSpace(s[1]) THEN LStrip(Tail(s)) ELSE s

RECURSIVE RStrip(_)
RStrip(s) == IF Len(s) > 0 /\ IsSpace(s[Len(s)])
             THEN RStrip(SubSeq(s, 1, Len(s) - 1)) ELSE s

Strip(s) == LStrip(RStrip(s))

\* ------------------------------------------------------------------------
\* The command grammar, as command_generator.py writes it
\* ------------------------------------------------------------------------
CmdORI == <<"$", "O", "R", "I", "#">>
CmdSRD == <<"$", "S", "R", "D", "#">>
CmdUARTLOOP == <<"$", "U", "A", "R", "T", "L", "O", "O", "P", "#">>
CmdMLS(n) == <<"$", "M", "L", "S">> \o Str(n) \o <<"#">>
CmdWAIT(n) == <<"$", "W", "A", "I", "T">> \o Str(n) \o <<"#">>
CmdSLD(ch, st) == <<"$", "S", "L", "D">> \o Str(ch) \o <<",">> \o Str(st) \o <<"#">>
CmdSMPD(n) == <<"$", "S", "M", "P", "D">> \o Str(n) \o <<"#">>

PrefixWAIT == <<"$", "W", "A", "I", "T">>
PrefixMLS == <<"$", "M", "L", "S">>

\* Return values of send_command
RespOK == <<"$", "O", "K", "#">>
RespNACK == <<"$", "N", "A", "C", "K", "#">>

\* What readline() can deliver in answer to a command: a full line of the
\* controller, nothing within the timeout, a line cut short by the timeout,
\* and the echo of the loopback token in answer to the loopback command
WireLines(cmd) ==
    { RespOK \o <<"\r", "\n">>,
      RespNACK \o <<"\n">>,
      <<>>,
      <<"$", "O", "K">> }
    \cup (IF cmd = CmdUARTLOOP THEN {CmdUARTLOOP \o <<"\n">>} ELSE {})

\* Return values of send_command that are plain messages
\* (kept whole: no code looks inside them)
ERR_PORT == <<"ERROR: Port not open">>
ERR_SERIAL == <<"ERROR: SerialException">>
ERR_OTHER == <<"ERROR: Exception">>
LOOP_GOOD == <<"STM32 work properly">>
LOOP_BAD == <<"STM32 work not properly">>

\* Exceptions a channel operation can raise inside send_command's try block
ChannelErrors == {"SerialException", "Exception"}

\* ------------------------------------------------------------------------
\* State
\* ------------------------------------------------------------------------
VARIABLES
    pc,             \* position of the single thread of control
    fast_mode,      \* StageController.fast_mode
    is_open,        \* StageController.ser.is_open
    ser_timeout,    \* StageController.ser.timeout
    command,        \* send_command's argument `command`
    timeout,        \* send_command's argument `timeout` (None or <<t>>)
    retries,        \* send_command's local `retries`
    response,       \* send_command's local `response` (None before a read)
    result,         \* value returned by the latest send_command
    writes,         \* ser.write calls made by the current send_command
    reads,          \* ser.readline calls made by the current send_command
    slept,          \* duration of the time.sleep made by the latest step
    calls,          \* send_command calls made by the stand-alone caller
    params,         \* the validated parameter set
    command_list,   \* the command sequence replayed by every cycle
    cycle_num,      \* main's `cycle_num`
    i,              \* position of the for loop in command_list (1-based)
    srd_count,      \* main's `srd_count`
    spectral_data,  \* main's `spectral_data`, one entry per column
    k,              \* loop counter of the drop loop / of read_spectrum
    spectrums,      \* read_spectrum's list `spectrums`
    spectrum,       \* main's `spectrum` (None or <<vector>>)
    frames,         \* cap.read calls made for the current command
    srd_seen,       \* acquire commands started since the cycle started
    trace,          \* commands executed since the cycle started
    log,            \* kind of the latest message logged by the cycle loop
    output,         \* (final_intensity_values, processed_data) handed over by
                    \* the cycle processed in the latest step (None otherwise)
    ret,            \* where the caller of send_command goes on after the call
    exp,            \* SpectrometerController.exp, as a number
    exp_type,       \* Python type of SpectrometerController.exp: "int" or "str"
    sensor_exp,     \* CAP_PROP_BRIGHTNESS last set on the camera
    ias,            \* the autoscaler's measured (or averaged) intensity
    ii,             \* perform_autoscaling2's round counter `ii`
    scan,           \* perform_autoscaling2's scan counter `j`
    intensity_list, \* perform_autoscaling2's list `intensity_list`
    stage,          \* main's `stage` is bound to a StageController
    spectrometer,   \* main's `spectrometer` is bound to a SpectrometerController
    device,         \* vendor device: "none", "initialized" or "finalized"
    cap,            \* camera capture: "none", "open" or "released"
    finalize_calls, \* SP_Finalize calls made
    settings,       \* origin of the wavelength axis: "unread", "device", "default"
    frame,          \* the row frame[0] of the frame handed to _process_frame
    combined,       \* _process_frame's result (None before it returns)
    lamps           \* the lamp commands main() has sent so far, in order

sendVars == <<fast_mode, is_open, ser_timeout, command, timeout, retries,
              response, result, writes, reads>>

cycleVars == <<params, command_list, cycle_num, i, srd_count, spectral_data,
               k, spectrums, spectrum, frames, srd_seen, trace,
               log, output>>

mainVars == <<stage, spectrometer, device, cap, finalize_calls, settings,
              frame, combined, lamps>>

\* What a send_command call of main() or of an autoscaler leaves alone
\* besides the cycle's variables
callerVars == <<exp, exp_type, sensor_exp, ias, ii, scan, intensity_list,
                stage, spectrometer, device, cap, finalize_calls, settings,
                frame, combined>>

runVars == <<exp, exp_type, sensor_exp, ias, ii, scan, intensity_list,
             mainVars>>

vars == <<pc, slept, calls, sendVars, cycleVars, ret, runVars>>

\* ------------------------------------------------------------------------
\* StageController.send_command
\* ------------------------------------------------------------------------
\* The lamp commands sent once cmd is: "$SLD<channel>,<state>#" is recorded
LampsAfter(cmd) ==
    IF StartsWith(cmd, <<"$", "S", "L", "D">>) THEN Append(lamps, cmd) ELSE lamps

\* The caller's call: arguments bound, per-call counters cleared
Invoke(cmd, t) ==
    /\ pc' = "send_enter"
    /\ command' = cmd
    /\ timeout' = t
    /\ retries' = 0
    /\ response' = None
    /\ writes' = 0
    /\ reads' = 0
    /\ slept' = 0
    /\ UNCHANGED <<fast_mode, is_open, ser_timeout, result>>

\* (variant: a channel error is raised to the caller instead of returned)
ReturnOrRaise(value) ==
    /\ pc' = IF value \in {ERR_SERIAL, ERR_OTHER} THEN "aborted" ELSE "returned"
    /\ result' = value

\* return <value>
Return(value) ==
    /\ pc' = "returned"
    /\ result' = value

\* if not self.ser or not self.ser.is_open: return "ERROR: Port not open"
SendPortClosed ==
    /\ pc = "send_enter"
    /\ ~is_open
    /\ Return(ERR_PORT)
    /\ slept' = 0
    /\ UNCHANGED <<fast_mode, is_open, ser_timeout, command, timeout, retries,
                   response, writes, reads, calls, cycleVars>>
    /\ UNCHANGED <<ret, runVars>>

\* (variant: fast mode reads one line and reports what it says)
SendFastChecked ==
    /\ pc = "send_enter"
    /\ is_open
    /\ fast_mode
    /\ writes' = writes + 1
    /\ reads' = reads + 1
    /\ slept' = BACKOFF
    /\ \E line \in WireLines(command) :
         Return(IF Strip(line) = RespOK THEN RespOK ELSE RespNACK)
    /\ UNCHANGED <<fast_mode, is_open, ser_timeout, command, timeout, retries,
                   response, calls, cycleVars>>
    /\ UNCHANGED <<ret, runVars>>

\* fast mode: write, sleep 0.5 s, report success without reading
SendFast ==
    /\ pc = "send_enter"
    /\ is_open
    /\ fast_mode
    /\ writes' = writes + 1
    /\ slept' = BACKOFF
    /\ Return(RespOK)
    /\ UNCHANGED <<fast_mode, is_open, ser_timeout, command, timeout, retries,
                   response, reads, calls, cycleVars>>
    /\ UNCHANGED <<ret, runVars>>

\* fast mode: the write raises, the handler returns "$NACK#"
SendFastError ==
    /\ pc = "send_enter"
    /\ is_open
    /\ fast_mode
    /\ slept' = 0
    /\ Return(RespNACK)
    /\ UNCHANGED <<fast_mode, is_open, ser_timeout, command, timeout, retries,
                   response, writes, reads, calls, cycleVars>>
    /\ UNCHANGED <<ret, runVars>>

\* (variant: without an override the channel timeout is left as it is)
EntryTimeoutKept(t) == IF t # None THEN t[1] ELSE ser_timeout

\* The timeout in force during the attempts of a call
EntryTimeout(t) == IF t # None THEN t[1] ELSE default_timeout

\* verified mode: self.ser.timeout = default, then the override if given
SendBegin ==
    /\ pc = "send_enter"
    /\ is_open
    /\ ~fast_mode
    /\ ser_timeout' = EntryTimeout(timeout)
    /\ retries' = 0
    /\ pc' = "send_loop"
    /\ slept' = 0
    /\ UNCHANGED <<fast_mode, is_open, command, timeout, response, result,
                   writes, reads, calls, cycleVars>>
    /\ UNCHANGED <<ret, runVars>>

\* (variant: the loop stops one attempt early)
LoopGuardStrict(r) == r < max_retries

\* while retries <= self.max_retries
LoopGuard(r) == r <= max_retries

\* one attempt: buffers reset, command written
SendWrite ==
    /\ pc = "send_loop"
    /\ LoopGuard(retries)
    /\ writes' = writes + 1
    /\ pc' = "send_read"
    /\ slept' = 0
    /\ UNCHANGED <<fast_mode, is_open, ser_timeout, command, timeout, retries,
                   response, result, reads, calls, cycleVars>>
    /\ UNCHANGED <<ret, runVars>>

\* a buffer reset or the write raises: except-branches of the try block
SendWriteError ==
    /\ pc = "send_loop"
    /\ LoopGuard(retries)
    /\ \E e \in ChannelErrors :
         Return(IF e = "SerialException" THEN ERR_SERIAL ELSE ERR_OTHER)
    /\ slept' = 0
    /\ UNCHANGED <<fast_mode, is_open, ser_timeout, command, timeout, retries,
                   response, writes, reads, calls, cycleVars>>
    /\ UNCHANGED <<ret, runVars>>

\* retries exhausted: the loop ends and "$NACK#" is returned
SendExhausted ==
    /\ pc = "send_loop"
    /\ ~LoopGuard(retries)
    /\ Return(RespNACK)
    /\ slept' = 0
    /\ UNCHANGED <<fast_mode, is_open, ser_timeout, command, timeout, retries,
                   response, writes, reads, calls, cycleVars>>
    /\ UNCHANGED <<ret, runVars>>

\* (variant: the override is left in force)
RestoredTimeoutKept(t, cur) == cur

\* the timeout restored on the loopback and success paths
RestoredTimeout(t, cur) == IF t # None THEN default_timeout ELSE cur

\* response = self.ser.readline().decode('ascii').strip()
Decode(line) == Strip(line)

\* readline() raises, or decode() meets a non-ASCII byte
SendReadError ==
    /\ pc = "send_read"
    /\ reads' = reads + 1
    /\ \E e \in ChannelErrors :
         Return(IF e = "SerialException" THEN ERR_SERIAL ELSE ERR_OTHER)
    /\ slept' = 0
    /\ UNCHANGED <<fast_mode, is_open, ser_timeout, command, timeout, retries,
                   response, writes, calls, cycleVars>>
    /\ UNCHANGED <<ret, runVars>>

\* if command == "$UARTLOOP#": one read decides the call
SendLoopback ==
    /\ pc = "send_read"
    /\ command = CmdUARTLOOP
    /\ \E line \in WireLines(command) :
         /\ response' = Some(Decode(line))
         /\ Return(IF Decode(line) = CmdUARTLOOP THEN LOOP_GOOD ELSE LOOP_BAD)
    /\ reads' = reads + 1
    /\ ser_timeout' = RestoredTimeout(timeout, ser_timeout)
    /\ slept' = 0
    /\ UNCHANGED <<fast_mode, is_open, command, timeout, retries, writes,
                   calls, cycleVars>>
    /\ UNCHANGED <<ret, runVars>>

\* (variant: a prefix of the success token is accepted)
IsSuccessPrefix(resp) == Len(resp) > 0 /\ StartsWith(RespOK, resp)

\* if response == "$OK#"
IsSuccess(resp) == resp = RespOK

\* if response == "$OK#": timeout restored, response returned
SendOk ==
    /\ pc = "send_read"
    /\ command # CmdUARTLOOP
    /\ \E line \in WireLines(command) :
         /\ IsSuccess(Decode(line))
         /\ response' = Some(Decode(line))
         /\ Return(Decode(line))
    /\ reads' = reads + 1
    /\ ser_timeout' = RestoredTimeout(timeout, ser_timeout)
    /\ slept' = 0
    /\ UNCHANGED <<fast_mode, is_open, command, timeout, retries, writes,
                   calls, cycleVars>>
    /\ UNCHANGED <<ret, runVars>>

\* The sleep that follows a failed attempt: 0.5 s after "$NACK#" and after an
\* unexpected response, none after an empty response
BackoffAfter(resp) == IF Len(resp) = 0 THEN 0 ELSE BACKOFF

\* elif "$NACK#" / elif not response / else: retries += 1 and the loop goes on
SendRetry ==
    /\ pc = "send_read"
    /\ command # CmdUARTLOOP
    /\ \E line \in WireLines(command) :
         /\ ~IsSuccess(Decode(line))
         /\ response' = Some(Decode(line))
         /\ slept' = BackoffAfter(Decode(line))
    /\ reads' = reads + 1
    /\ retries' = retries + 1
    /\ pc' = "send_loop"
    /\ UNCHANGED <<fast_mode, is_open, ser_timeout, command, timeout, result,
                   writes, calls, cycleVars>>
    /\ UNCHANGED <<ret, runVars>>

\* ------------------------------------------------------------------------
\* SpectrometerController: captures and averaging
\* ------------------------------------------------------------------------
\* The RawSpectrum values read_spectrum_single can return: a dark frame and a
\* lit frame whose intensity rises along the sensor
DarkFrame == [p \in 1..Pixels |-> 0]
LitFrame == [p \in 1..Pixels |-> Level * p]
Frames == {DarkFrame, LitFrame}

\* read_spectrum_single(): a RawSpectrum, or None when no frame could be read
Captures == {None} \cup {Some(f) : f \in Frames}

RECURSIVE SumAt(_, _)
SumAt(specs, p) == IF Len(specs) = 0 THEN 0
                   ELSE specs[1][p] + SumAt(Tail(specs), p)

\* np.mean(np.array(spectrums), axis=0), in units of 1/no_of_average: the
\* columns of spectral_data hold no_of_average times the intensity
Mean(specs) == [p \in 1..Pixels |-> SumAt(specs, p)]

\* np.zeros((1280, no_of_point_per_cycle)): columns 0..n-1 as entries 1..n
Zeros(n) == [c \in 1..n |-> [p \in 1..Pixels |-> 0]]

\* ------------------------------------------------------------------------
\* data_processor.process_spectral_data
\* ------------------------------------------------------------------------
\* Wavelengths are in units of 1/(Pixels-1) nm, which makes the default axis
\* np.linspace(350, 1050, Pixels) integral
WlUnit == Pixels - 1
SegmentWidth == WL_END - WL_START

\* SpectrometerController._generate_default_wavelength_axis
NativeAxis == [p \in 1..Pixels |-> WL_START * WlUnit + (p - 1) * SegmentWidth]

\* new_wavelengths = np.arange(400, 960.5, 0.5), with step CanonStep
CanonCount == ((CANON_END - CANON_START) \div CanonStep) + 1
CanonAxis == [n \in 1..CanonCount |-> (CANON_START + (n - 1) * CanonStep) * WlUnit]

\* interp1d(kind='linear', bounds_error=False, fill_value=0) at wavelength x,
\* in units of 1/SegmentWidth
Interp(col, x) ==
    IF x < NativeAxis[1] \/ x > NativeAxis[Pixels] THEN 0
    ELSE LET p == CHOOSE q \in 1..(Pixels - 1) :
                      NativeAxis[q] <= x /\ x <= NativeAxis[q + 1]
         IN  col[p] * (NativeAxis[p + 1] - x) + col[p + 1] * (x - NativeAxis[p])

\* baseline_mask: canonical points inside [baseline_start, baseline_end]
BaselineMask(cfg) ==
    {n \in 1..CanonCount : /\ CanonAxis[n] >= cfg.baseline_start * WlUnit
                           /\ CanonAxis[n] <= cfg.baseline_end * WlUnit}

RECURSIVE SumOver(_, _)
SumOver(f, S) == IF S = {} THEN 0
                 ELSE LET n == CHOOSE m \in S : TRUE
                      IN  f[n] + SumOver(f, S \ {n})

\* One column: interpolation, then the baseline mean subtracted when the
\* band holds a point.  With a band of m > 0 points the values are in units
\* of 1/m of the interpolated ones.
ProcessColumn(col, cfg) ==
    LET interpolated == [n \in 1..CanonCount |-> Interp(col, CanonAxis[n])]
        mask == BaselineMask(cfg)
        m == Cardinality(mask)
    IN  IF m > 0
        THEN [n \in 1..CanonCount |-> m * interpolated[n] - SumOver(interpolated, mask)]
        ELSE interpolated

Abs(x) == IF x < 0 THEN 0 - x ELSE x

\* np.argmin(np.abs(new_wavelengths - sampling_wavelength)): first minimum
SamplingIndex(cfg) ==
    CHOOSE n \in 1..CanonCount :
        /\ \A m \in 1..CanonCount :
             Abs(CanonAxis[n] - cfg.sampling_wavelength * WlUnit)
                 <= Abs(CanonAxis[m] - cfg.sampling_wavelength * WlUnit)
        /\ \A m \in 1..(n - 1) :
             Abs(CanonAxis[m] - cfg.sampling_wavelength * WlUnit)
                 > Abs(CanonAxis[n] - cfg.sampling_wavelength * WlUnit)

\* (final_intensity_values, processed_data): one entry per column of data
ProcessSpectralData(data, cfg) ==
    LET processed == [c \in 1..Len(data) |-> ProcessColumn(data[c], cfg)]
    IN  [intensity |-> [c \in 1..Len(data) |-> processed[c][SamplingIndex(cfg)]],
         total |-> processed]

\* ------------------------------------------------------------------------
\* main(): the per-cycle command loop
\* ------------------------------------------------------------------------
Current == command_list[i]

AtCommand == pc = "cmd" /\ i <= Len(command_list)

\* (variant: the wait branch compares instead of testing the prefix)
IsWaitExact(cmd) == cmd = PrefixWAIT

\* The branch of the if/elif chain a command takes
IsWait(cmd) == StartsWith(cmd, PrefixWAIT)

IsAcquire(cmd) == ~IsWait(cmd) /\ cmd = CmdSRD

\* int(command[4:-1])
PulseCount(cmd) == ParseInt(SubSeq(cmd, 5, Len(cmd) - 1))

\* (variant: the pulse threshold is inclusive)
TimeoutForInclusive(cmd) ==
    IF cmd = CmdORI THEN Some(LONG_TIMEOUT)
    ELSE IF StartsWith(cmd, PrefixMLS) /\ PulseCount(cmd) >= MLS_THRESHOLD
         THEN Some(LONG_TIMEOUT)
         ELSE None

\* The timeout argument of the send_command call made for a command that
\* is neither wait nor acquire: 15 s for "$ORI#" and for "$MLS<n>#" with
\* n > 20, none otherwise
TimeoutFor(cmd) ==
    IF cmd = CmdORI THEN Some(LONG_TIMEOUT)
    ELSE IF StartsWith(cmd, PrefixMLS) /\ PulseCount(cmd) > MLS_THRESHOLD
         THEN Some(LONG_TIMEOUT)
         ELSE None

\* (variant: the capacity test admits one acquisition too many)
BelowCapacityInclusive(count, cfg) == count <= cfg.no_of_point_per_cycle

\* if srd_count < params['no_of_point_per_cycle']
BelowCapacity(count, cfg) == count < cfg.no_of_point_per_cycle

Executed(kind, t) == Append(trace, [idx |-> i, kind |-> kind, timeout |-> t])

\* (variant: the matrix and the counter are set up once, before the loop)
StartCycleCarry ==
    /\ pc = "cycle_start"
    /\ cycle_num <= params.np_of_cycle
    /\ spectral_data' = IF cycle_num = 1
                        THEN Zeros(params.no_of_point_per_cycle)
                        ELSE spectral_data
    /\ srd_count' = IF cycle_num = 1 THEN 0 ELSE srd_count
    /\ i' = 1
    /\ pc' = "cmd"
    /\ slept' = 0
    /\ frames' = 0
    /\ srd_seen' = 0
    /\ trace' = <<>>
    /\ log' = "none"
    /\ output' = None
    /\ UNCHANGED <<calls, sendVars, params, command_list, cycle_num, k,
                   spectrums, spectrum>>
    /\ UNCHANGED <<ret, runVars>>

\* for cycle_num in range(1, np_of_cycle + 1): fresh matrix and counter
StartCycle ==
    /\ pc = "cycle_start"
    /\ cycle_num <= params.np_of_cycle
    /\ spectral_data' = Zeros(params.no_of_point_per_cycle)
    /\ srd_count' = 0
    /\ i' = 1
    /\ pc' = "cmd"
    /\ slept' = 0
    /\ frames' = 0
    /\ srd_seen' = 0
    /\ trace' = <<>>
    /\ log' = "none"
    /\ output' = None
    /\ UNCHANGED <<calls, sendVars, params, command_list, cycle_num, k,
                   spectrums, spectrum>>
    /\ UNCHANGED <<ret, runVars>>

\* the range of cycles is exhausted
CyclesDone ==
    /\ pc = "cycle_start"
    /\ cycle_num > params.np_of_cycle
    /\ pc' = "finished"
    /\ slept' = 0
    /\ output' = None
    /\ UNCHANGED <<calls, sendVars, params, command_list, cycle_num, i,
                   srd_count, spectral_data, k, spectrums, spectrum, frames,
                   srd_seen, trace, log>>
    /\ UNCHANGED <<ret, runVars>>

\* if command.startswith('$WAIT'): time.sleep(int(re.search(r'\d+', ...)))
CmdWait ==
    /\ AtCommand
    /\ IsWait(Current)
    /\ HasDigit(Current)
    /\ slept' = TENTHS * ParseInt(FirstDigits(Current))
    /\ trace' = Executed("wait", None)
    /\ log' = "command"
    /\ frames' = 0
    /\ i' = i + 1
    /\ UNCHANGED <<pc, calls, sendVars, params, command_list, cycle_num,
                   srd_count, spectral_data, k, spectrums, spectrum,
                   srd_seen, output>>
    /\ UNCHANGED <<ret, runVars>>

\* elif command == '$SRD#', below capacity: settle, then the drop loop
CmdSrdBegin ==
    /\ AtCommand
    /\ IsAcquire(Current)
    /\ BelowCapacity(srd_count, params)
    /\ slept' = SETTLE
    /\ trace' = Executed("acquire", None)
    /\ srd_seen' = srd_seen + 1
    /\ k' = 0
    /\ spectrums' = <<>>
    /\ spectrum' = None
    /\ pc' = IF params.no_of_drop > 0 THEN "srd_drop" ELSE "srd_avg"
    /\ log' = "command"
    /\ frames' = 0
    /\ UNCHANGED <<calls, sendVars, params, command_list, cycle_num, i,
                   srd_count, spectral_data, output>>
    /\ UNCHANGED <<ret, runVars>>

\* elif command == '$SRD#', at capacity: settle, warn, skip
CmdSrdSkip ==
    /\ AtCommand
    /\ IsAcquire(Current)
    /\ ~BelowCapacity(srd_count, params)
    /\ slept' = SETTLE
    /\ trace' = Executed("acquire", None)
    /\ srd_seen' = srd_seen + 1
    /\ log' = "extra_srd"
    /\ frames' = 0
    /\ i' = i + 1
    /\ UNCHANGED <<pc, calls, sendVars, params, command_list, cycle_num,
                   srd_count, spectral_data, k, spectrums, spectrum,
                   output>>
    /\ UNCHANGED <<ret, runVars>>

\* for _ in range(no_of_drop): spectrometer.read_spectrum_single()
SrdDrop ==
    /\ pc = "srd_drop"
    /\ k < params.no_of_drop
    /\ \E capture \in Captures : frames' = frames + 1
    /\ k' = IF k + 1 < params.no_of_drop THEN k + 1 ELSE 0
    /\ pc' = IF k + 1 < params.no_of_drop THEN "srd_drop" ELSE "srd_avg"
    /\ slept' = 0
    /\ UNCHANGED <<calls, sendVars, params, command_list, cycle_num, i,
                   srd_count, spectral_data, spectrums, spectrum, srd_seen,
                   trace, log, output>>
    /\ UNCHANGED <<ret, runVars>>

\* read_spectrum: one capture of the averaging loop succeeds; after the last
\* one the mean is returned (and the locals of read_spectrum are gone)
SrdAvgFrame ==
    /\ pc = "srd_avg"
    /\ k < params.no_of_average
    /\ frames' = frames + 1
    /\ \E capture \in Captures :
         /\ capture # None
         /\ IF k + 1 < params.no_of_average
            THEN /\ spectrums' = Append(spectrums, capture[1])
                 /\ k' = k + 1
                 /\ pc' = "srd_avg"
                 /\ spectrum' = spectrum
            ELSE /\ spectrums' = <<>>
                 /\ k' = 0
                 /\ pc' = "srd_store"
                 /\ spectrum' = Some(Mean(Append(spectrums, capture[1])))
    /\ slept' = 0
    /\ UNCHANGED <<calls, sendVars, params, command_list, cycle_num, i,
                   srd_count, spectral_data, srd_seen, trace, log,
                   output>>
    /\ UNCHANGED <<ret, runVars>>

\* (variant: a failed capture is left out and the averaging goes on)
SrdAvgFailIgnored ==
    /\ pc = "srd_avg"
    /\ k < params.no_of_average
    /\ frames' = frames + 1
    /\ IF k + 1 < params.no_of_average
       THEN /\ k' = k + 1
            /\ pc' = "srd_avg"
            /\ UNCHANGED <<spectrums, spectrum>>
       ELSE /\ spectrums' = <<>>
            /\ k' = 0
            /\ pc' = "srd_store"
            /\ spectrum' = IF spectrums = <<>> THEN None
                           ELSE Some(Mean(spectrums))
    /\ slept' = 0
    /\ UNCHANGED <<calls, sendVars, params, command_list, cycle_num, i,
                   srd_count, spectral_data, srd_seen, trace, log,
                   output>>
    /\ UNCHANGED <<ret, runVars>>

\* read_spectrum: one capture fails, averaging is abandoned, None returned
SrdAvgFail ==
    /\ pc = "srd_avg"
    /\ k < params.no_of_average
    /\ frames' = frames + 1
    /\ spectrum' = None
    /\ spectrums' = <<>>
    /\ k' = 0
    /\ pc' = "srd_store"
    /\ slept' = 0
    /\ UNCHANGED <<calls, sendVars, params, command_list, cycle_num, i,
                   srd_count, spectral_data, srd_seen, trace, log,
                   output>>
    /\ UNCHANGED <<ret, runVars>>

\* spectral_data[:, srd_count] = spectrum (numpy raises IndexError for a
\* column that does not exist)
ColumnExists(data, count) == count + 1 \in 1..Len(data)

StoreColumn(data, count, vec) == [data EXCEPT ![count + 1] = vec]

\* time.sleep(0.2); if spectrum is not None: store and count
SrdStore ==
    /\ pc = "srd_store"
    /\ spectrum # None
    /\ slept' = SETTLE
    /\ IF ColumnExists(spectral_data, srd_count)
       THEN /\ spectral_data' = StoreColumn(spectral_data, srd_count, spectrum[1])
            /\ srd_count' = srd_count + 1
            /\ i' = i + 1
            /\ pc' = "cmd"
       ELSE /\ pc' = "aborted"
            /\ UNCHANGED <<spectral_data, srd_count, i>>
    /\ UNCHANGED <<calls, sendVars, params, command_list, cycle_num, k,
                   spectrums, spectrum, frames, srd_seen, trace, log, output>>
    /\ UNCHANGED <<ret, runVars>>

\* time.sleep(0.2); else: logging.error, the counter stays
SrdFailed ==
    /\ pc = "srd_store"
    /\ spectrum = None
    /\ slept' = SETTLE
    /\ log' = "read_failed"
    /\ i' = i + 1
    /\ pc' = "cmd"
    /\ UNCHANGED <<calls, sendVars, params, command_list, cycle_num,
                   srd_count, spectral_data, k, spectrums, spectrum, frames,
                   srd_seen, trace, output>>
    /\ UNCHANGED <<ret, runVars>>

\* elif '$ORI#' / elif '$MLS' and n > 20 / else: stage.send_command(...)
CmdSend ==
    /\ AtCommand
    /\ ~IsWait(Current)
    /\ ~IsAcquire(Current)
    /\ Invoke(Current, TimeoutFor(Current))
    /\ trace' = Executed("send", TimeoutFor(Current))
    /\ log' = "command"
    /\ frames' = 0
    /\ UNCHANGED <<calls, params, command_list, cycle_num, i, srd_count,
                   spectral_data, k, spectrums, spectrum, srd_seen,
                   output>>
    /\ ret' = "cmd"
    /\ lamps' = LampsAfter(Current)
    /\ UNCHANGED callerVars

\* send_command has returned: its locals are gone, main discards the value
\* returned, and the for loop takes the next command
AfterSend ==
    /\ pc = "returned"
    /\ ret = "cmd"
    /\ i' = i + 1
    /\ pc' = "cmd"
    /\ slept' = 0
    /\ command' = <<>>
    /\ timeout' = None
    /\ retries' = 0
    /\ response' = None
    /\ result' = None
    /\ writes' = 0
    /\ reads' = 0
    /\ UNCHANGED <<calls, fast_mode, is_open, ser_timeout, params,
                   command_list, cycle_num, srd_count, spectral_data, k,
                   spectrums, spectrum, frames, srd_seen, trace,
                   log, output>>
    /\ UNCHANGED <<ret, runVars>>

\* after the last command: data_processor.process_spectral_data
CycleProcess ==
    /\ pc = "cmd"
    /\ i > Len(command_list)
    /\ output' = Some(ProcessSpectralData(spectral_data, params))
    /\ cycle_num' = cycle_num + 1
    /\ pc' = "cycle_start"
    /\ slept' = 0
    /\ UNCHANGED <<calls, sendVars, params, command_list, i, srd_count,
                   spectral_data, k, spectrums, spectrum, frames, srd_seen,
                   trace, log>>
    /\ UNCHANGED <<ret, runVars>>

\* ------------------------------------------------------------------------
\* Specification of a run of cycles
\* ------------------------------------------------------------------------
\* Commands a sequence is made of: one of each class the loop tells apart
Alphabet ==
    { CmdWAIT(WaitSeconds), CmdSRD, CmdORI, CmdMLS(MLS_THRESHOLD),
      CmdMLS(MLS_THRESHOLD + 1), CmdSLD(0, 1), CmdUARTLOOP }

CommandLists == UNION {[1..n -> Alphabet] : n \in 0..MaxLen}

ParamSets ==
    [no_of_point_per_cycle : 0..MaxPoints,
     no_of_drop : 1..MaxDrop,
     no_of_average : 1..MaxAverage,
     np_of_cycle : 1..MaxCycles,
     baseline_start : {CANON_END - 10},
     baseline_end : {CANON_END},
     sampling_wavelength : {CANON_START + CanonStep}]

InitController(fast) ==
    /\ fast_mode = fast
    /\ is_open = TRUE
    /\ ser_timeout = IF fast THEN FAST_TIMEOUT ELSE default_timeout
    /\ command = <<>>
    /\ timeout = None
    /\ retries = 0
    /\ response = None
    /\ result = None
    /\ writes = 0
    /\ reads = 0
    /\ slept = 0

InitCycleVars(cfg, cmds) ==
    /\ params = cfg
    /\ command_list = cmds
    /\ cycle_num = 1
    /\ i = 1
    /\ srd_count = 0
    /\ spectral_data = <<>>
    /\ k = 0
    /\ spectrums = <<>>
    /\ spectrum = None
    /\ frames = 0
    /\ srd_seen = 0
    /\ trace = <<>>
    /\ log = "none"
    /\ output = None

\* SpectrometerController(gain, exp): the exposure is kept and set on the
\* camera; the autoscaler's locals do not exist yet
InitSpectrometer(e) ==
    /\ stage = TRUE
    /\ spectrometer = TRUE
    /\ device = "initialized"
    /\ cap = "open"
    /\ finalize_calls = 0
    /\ settings = "device"
    /\ frame = <<>>
    /\ lamps = <<>>
    /\ combined = None
    /\ exp = e
    /\ exp_type = "int"
    /\ sensor_exp = e
    /\ ias = None
    /\ ii = 0
    /\ scan = 0
    /\ intensity_list = <<>>

\* main(): StageController(port=com_port, fast_mode=False)
Init ==
    /\ pc = "cycle_start"
    /\ calls = 0
    /\ ret = "cmd"
    /\ InitController(FALSE)
    /\ InitSpectrometer(DEFAULT_EXP)
    /\ \E cfg \in ParamSets, cmds \in CommandLists : InitCycleVars(cfg, cmds)

Next ==
    \/ StartCycle
    \/ CyclesDone
    \/ CmdWait
    \/ CmdSrdBegin
    \/ CmdSrdSkip
    \/ SrdDrop
    \/ SrdAvgFrame
    \/ SrdAvgFail
    \/ SrdStore
    \/ SrdFailed
    \/ CmdSend
    \/ AfterSend
    \/ CycleProcess
    \/ SendBegin
    \/ SendWrite
    \/ SendWriteError
    \/ SendExhausted
    \/ SendReadError
    \/ SendLoopback
    \/ SendOk
    \/ SendRetry

Spec == Init /\ [][Next]_vars

\* ------------------------------------------------------------------------
\* Specification of send_command on its own: a caller that makes up to
\* MaxCalls calls with any command and timeout, and may close the port
\* ------------------------------------------------------------------------
SendCommands == {CmdORI, CmdMLS(MLS_THRESHOLD + 1), CmdSLD(0, 1), CmdUARTLOOP}

Timeouts == {None, Some(LONG_TIMEOUT)}

\* stage.send_command(cmd, t)
Call ==
    /\ pc \in {"idle", "returned"}
    /\ calls < MaxCalls
    /\ calls' = calls + 1
    /\ \E cmd \in SendCommands, t \in Timeouts : Invoke(cmd, t)
    /\ UNCHANGED cycleVars
    /\ UNCHANGED <<ret, runVars>>

\* StageController.close
Close ==
    /\ pc \in {"idle", "returned"}
    /\ is_open
    /\ is_open' = FALSE
    /\ slept' = 0
    /\ UNCHANGED <<pc, calls, fast_mode, ser_timeout, command, timeout,
                   retries, response, result, writes, reads, cycleVars>>
    /\ UNCHANGED <<ret, runVars>>

InitSend ==
    /\ pc = "idle"
    /\ calls = 0
    /\ ret = "idle"
    /\ InitSpectrometer(DEFAULT_EXP)
    /\ \E fast \in BOOLEAN : InitController(fast)
    /\ InitCycleVars(CHOOSE cfg \in ParamSets : TRUE, <<>>)

NextSend ==
    \/ Call
    \/ Close
    \/ SendPortClosed
    \/ SendFast
    \/ SendFastError
    \/ SendBegin
    \/ SendWrite
    \/ SendWriteError
    \/ SendExhausted
    \/ SendReadError
    \/ SendLoopback
    \/ SendOk
    \/ SendRetry

SpecSend == InitSend /\ [][NextSend]_vars

\* ------------------------------------------------------------------------
\* main.py: perform_autoscaling and perform_autoscaling2
\* ------------------------------------------------------------------------
\* Intensities the scene can give at the autoscaling wavelength after the
\* baseline is subtracted: zero, half the target, twice the target
Intensities == {0, 50, 200}

\* Exposures the configuration can ask for (params['exp'] is any integer)
Exposures == {DEFAULT_EXP, EXP_MAX + 101}

\* Exposures the operator can type
ManualExposures == {250}

\* new_wl = np.arange(400, 1000.5, 0.5), with step CanonStep
AutoAxis ==
    {CANON_START + n * CanonStep : n \in 0..((AUTO_END - CANON_START) \div CanonStep)}

\* mask = (s.index >= baseline_start) & (s.index <= baseline_end)
AutoBaselineMask(cfg) ==
    {w \in AutoAxis : w >= cfg.baseline_start /\ w <= cfg.baseline_end}

\* The float NaN, which is what the mean of an empty selection is; it stands
\* apart from every intensity
NaN == -1000000

\* read_spectrum_single_no_base(params).loc[wavelength]: s - avg, where m is
\* the resampled intensity less the mean over the band when the band holds a
\* point; with an empty band avg is NaN and so is every point of s
NoBaseReading(cfg, m) == IF AutoBaselineMask(cfg) = {} THEN NaN ELSE m

\* int(x) of the quotient num/den: truncation toward zero
IntTrunc(num, den) ==
    IF (num >= 0) = (den > 0)
    THEN Abs(num) \div Abs(den)
    ELSE -(Abs(num) \div Abs(den))

\* int(autoscaling_position / pulse_distance), pulse_distance = 0.0196
PulsesFor(position) == IntTrunc(position * PULSE_DEN, PULSE_NUM)

\* (variant: the upper limit is not applied)
ClampLowOnly(e) == IF e < EXP_MIN THEN EXP_MIN ELSE e

\* exp = min(<int>, 899); exp = max(1, exp)
Clamp(e) ==
    IF e > EXP_MAX THEN EXP_MAX ELSE IF e < EXP_MIN THEN EXP_MIN ELSE e

\* (variant: the tolerance band excludes its ends)
ConvergedStrict(measured_num, n, cfg) ==
    /\ measured_num # NaN
    /\ Abs(measured_num - n * cfg.autoscaling_intensity)
          < n * cfg.autoscaling_threshold

\* abs(measured - autoscaling_intensity) <= autoscaling_threshold, for a
\* measured value given as the quotient measured_num / n; a comparison with
\* NaN is false
Converged(measured_num, n, cfg) ==
    /\ measured_num # NaN
    /\ Abs(measured_num - n * cfg.autoscaling_intensity)
          <= n * cfg.autoscaling_threshold

\* perform_autoscaling: pias = target / ias if ias > 0 else 2;
\* exp = max(1, min(int(exp * pias), 899))
Correct1(e, m, cfg) ==
    IF m # NaN /\ m > 0
    THEN Clamp(IntTrunc(e * cfg.autoscaling_intensity, m))
    ELSE Clamp(2 * e)

\* perform_autoscaling2: pias = target / avg_intensity raises nothing in
\* numpy arithmetic, but int() of the infinite or undefined product does;
\* so does the product of a str exposure and a float
Correct2Raises(etype, total) == etype = "str" \/ total = 0 \/ total = NaN

\* perform_autoscaling2: exp = max(1, min(int(exp * target / avg), 899)),
\* avg = total / n
Correct2(e, total, n, cfg) ==
    Clamp(IntTrunc(e * cfg.autoscaling_intensity * n, total))

\* set_exp: the camera takes the value if it is there and open
SetExp(e) == IF cap = "open" THEN e ELSE sensor_exp

\* raw_spec.loc[autoscaling_wavelength] finds the label on the 400..1000 grid
OnAutoGrid(cfg) ==
    /\ cfg.autoscaling_wavelength >= CANON_START
    /\ cfg.autoscaling_wavelength <= AUTO_END

\* stage.send_command(cmd, t) made by a caller that goes on at `back`
CallSend(cmd, t, back) ==
    /\ Invoke(cmd, t)
    /\ ret' = back

\* send_command has returned to a caller other than the cycle loop, which
\* discards the value returned
ReturnTo ==
    /\ pc = "returned"
    /\ ret # "cmd"
    /\ pc' = ret
    /\ slept' = 0
    /\ command' = <<>>
    /\ timeout' = None
    /\ retries' = 0
    /\ response' = None
    /\ result' = None
    /\ writes' = 0
    /\ reads' = 0
    /\ UNCHANGED <<calls, fast_mode, is_open, ser_timeout, cycleVars, ret,
                   runVars>>

\* perform_autoscaling: stage.send_command("$ORI#", 15)
AsHome ==
    /\ pc = "as_ori"
    /\ CallSend(CmdORI, Some(LONG_TIMEOUT), "as_move")
    /\ UNCHANGED <<calls, cycleVars, runVars>>

\* stage.send_command(f"$MLS{int(position/pulse_distance)}#", 10)
AsMove ==
    /\ pc = "as_move"
    /\ CallSend(CmdMLS(PulsesFor(params.autoscaling_position)),
                Some(MOVE_TIMEOUT), "as_lamp")
    /\ UNCHANGED <<calls, cycleVars, runVars>>

\* lamp 0 -> "$SLD0,1#"; lamp 1 -> "$SLD1,1#"; lamp 2 -> "$SLD0,1#" first
AsLamp ==
    /\ pc = "as_lamp"
    /\ params.lamp \in {0, 1, 2}
    /\ CallSend(CmdSLD(IF params.lamp = 1 THEN 1 ELSE 0, 1), Some(LAMP_TIMEOUT),
                IF params.lamp = 2 THEN "as_lamp2" ELSE "as_settle")
    /\ lamps' = LampsAfter(CmdSLD(IF params.lamp = 1 THEN 1 ELSE 0, 1))
    /\ UNCHANGED <<calls, cycleVars, callerVars>>

\* (variant: the second channel of lamp 2 is left off)
AsLampSecondSkipped ==
    /\ pc = "as_lamp2"
    /\ pc' = "as_settle"
    /\ slept' = 0
    /\ UNCHANGED <<calls, sendVars, cycleVars, ret, runVars>>

\* lamp 2: then "$SLD1,1#"
AsLampSecond ==
    /\ pc = "as_lamp2"
    /\ CallSend(CmdSLD(1, 1), Some(LAMP_TIMEOUT), "as_settle")
    /\ lamps' = LampsAfter(CmdSLD(1, 1))
    /\ UNCHANGED <<calls, cycleVars, callerVars>>

\* any other lamp value: no lamp command
AsLampNone ==
    /\ pc = "as_lamp"
    /\ params.lamp \notin {0, 1, 2}
    /\ pc' = "as_settle"
    /\ slept' = 0
    /\ UNCHANGED <<calls, sendVars, cycleVars, ret, runVars>>

\* time.sleep(15), then the for loop starts
AsSettle ==
    /\ pc = "as_settle"
    /\ slept' = LAMP_SETTLE
    /\ i' = 0
    /\ frames' = 0
    /\ pc' = "as_iter"
    /\ UNCHANGED <<calls, sendVars, params, command_list, cycle_num,
                   srd_count, spectral_data, k, spectrums, spectrum,
                   srd_seen, trace, log, output, ret, runVars>>

\* for i in range(20): four warm-up reads whose results are discarded
AsWarmup ==
    /\ pc = "as_iter"
    /\ i < AUTOSCALE_CAP
    /\ frames' = WARMUP_READS
    /\ ias' = None
    /\ pc' = "as_measure"
    /\ slept' = 0
    /\ UNCHANGED <<calls, sendVars, params, command_list, cycle_num, i,
                   srd_count, spectral_data, k, spectrums, spectrum,
                   srd_seen, trace, log, output, ret, exp, exp_type,
                   sensor_exp, ii, scan, intensity_list>>
    /\ UNCHANGED mainVars

\* read_spectrum_single_no_base(params) or .loc[autoscaling_wavelength]
\* raises: the capture gave None, or the wavelength is not a grid label
AsMeasureFail ==
    /\ pc = "as_measure"
    /\ frames' = frames + 1
    /\ pc' = "aborted"
    /\ slept' = 0
    /\ UNCHANGED <<calls, sendVars, params, command_list, cycle_num, i,
                   srd_count, spectral_data, k, spectrums, spectrum,
                   srd_seen, trace, log, output, ret, runVars>>

\* if abs(ias - autoscaling_intensity) <= autoscaling_threshold: return True
AsConverge ==
    /\ pc = "as_measure"
    /\ OnAutoGrid(params)
    /\ \E m \in Intensities :
         /\ Converged(NoBaseReading(params, m), 1, params)
         /\ ias' = Some(NoBaseReading(params, m))
    /\ frames' = frames + 1
    /\ pc' = "as2_enter"
    /\ slept' = 0
    /\ UNCHANGED <<calls, sendVars, params, command_list, cycle_num, i,
                   srd_count, spectral_data, k, spectrums, spectrum,
                   srd_seen, trace, log, output, ret, exp, exp_type,
                   sensor_exp, ii, scan, intensity_list>>
    /\ UNCHANGED mainVars

\* otherwise: the exposure is corrected and set on the camera
AsCorrect ==
    /\ pc = "as_measure"
    /\ OnAutoGrid(params)
    /\ \E m \in Intensities :
         /\ ~Converged(NoBaseReading(params, m), 1, params)
         /\ ias' = Some(NoBaseReading(params, m))
         /\ exp' = Correct1(exp, NoBaseReading(params, m), params)
         /\ sensor_exp' = SetExp(Correct1(exp, NoBaseReading(params, m), params))
    /\ frames' = frames + 1
    /\ i' = i + 1
    /\ pc' = "as_iter"
    /\ slept' = 0
    /\ UNCHANGED <<calls, sendVars, params, command_list, cycle_num,
                   srd_count, spectral_data, k, spectrums, spectrum,
                   srd_seen, trace, log, output, ret, exp_type, ii, scan,
                   intensity_list>>
    /\ UNCHANGED mainVars

\* the for loop is exhausted: logging.error, then the manual entry
AsExhausted ==
    /\ pc = "as_iter"
    /\ i >= AUTOSCALE_CAP
    /\ pc' = "as_manual"
    /\ log' = "autoscaling_failed"
    /\ slept' = 0
    /\ UNCHANGED <<calls, sendVars, params, command_list, cycle_num, i,
                   srd_count, spectral_data, k, spectrums, spectrum, frames,
                   srd_seen, trace, output, ret, runVars>>

\* spectrometer.exp = input(...): the text typed is kept as it is; return True
AsManual ==
    /\ pc = "as_manual"
    /\ \E typed \in ManualExposures :
         /\ exp' = ParseInt(Str(typed))
         /\ exp_type' = "str"
    /\ pc' = "as2_enter"
    /\ slept' = 0
    /\ UNCHANGED <<calls, sendVars, cycleVars, ret, sensor_exp, ias, ii,
                   scan, intensity_list>>
    /\ UNCHANGED mainVars

\* (variant: the warm-up reads are made before the repeat count is tested)
As2SkipWarm ==
    /\ pc = "as2_enter"
    /\ params.number_of_autoscaling = 0
    /\ frames' = frames + WARMUP_READS
    /\ pc' = "auto_done"
    /\ slept' = 0
    /\ UNCHANGED <<calls, sendVars, params, command_list, cycle_num, i,
                   srd_count, spectral_data, k, spectrums, spectrum,
                   srd_seen, trace, log, output, ret, runVars>>

\* perform_autoscaling2: if params['number_of_autoscaling'] == 0: return
As2Skip ==
    /\ pc = "as2_enter"
    /\ params.number_of_autoscaling = 0
    /\ pc' = "auto_done"
    /\ slept' = 0
    /\ UNCHANGED <<calls, sendVars, cycleVars, ret, runVars>>

\* else: ii = 0
As2Begin ==
    /\ pc = "as2_enter"
    /\ params.number_of_autoscaling # 0
    /\ ii' = 0
    /\ i' = 0
    /\ ias' = None
    /\ frames' = 0
    /\ log' = "none"
    /\ pc' = "as2_round"
    /\ slept' = 0
    /\ UNCHANGED <<calls, sendVars, params, command_list, cycle_num,
                   srd_count, spectral_data, k, spectrums, spectrum,
                   srd_seen, trace, output, ret, exp, exp_type, sensor_exp,
                   scan, intensity_list>>
    /\ UNCHANGED mainVars

\* while True: ii = ii + 1; intensity_list = []; send_command("$ORI#", 15)
As2Round ==
    /\ pc = "as2_round"
    /\ ii < MaxRounds
    /\ ii' = ii + 1
    /\ intensity_list' = <<>>
    /\ ias' = None
    /\ frames' = 0
    /\ CallSend(CmdORI, Some(LONG_TIMEOUT), "as2_move")
    /\ UNCHANGED <<calls, params, command_list, cycle_num, i, srd_count,
                   spectral_data, k, spectrums, spectrum, srd_seen, trace,
                   log, output, exp, exp_type, sensor_exp, scan>>
    /\ UNCHANGED mainVars

\* stage.send_command(f"$MLS{int(position/pulse_distance)}#", 15)
As2Move ==
    /\ pc = "as2_move"
    /\ scan' = 0
    /\ CallSend(CmdMLS(PulsesFor(params.autoscaling_position)),
                Some(LONG_TIMEOUT), "as2_scan")
    /\ UNCHANGED <<calls, cycleVars, exp, exp_type, sensor_exp, ias, ii,
                   intensity_list>>
    /\ UNCHANGED mainVars

\* for j in range(number_of_autoscaling): send_command(f"$MLS{pulses}#")
As2ScanMove ==
    /\ pc = "as2_scan"
    /\ scan < params.number_of_autoscaling
    /\ CallSend(CmdMLS(params.no_of_pulse_per_point), None, "as2_measure")
    /\ UNCHANGED <<calls, cycleVars, runVars>>

\* ias = read_spectrum_single_no_base(params)[wavelength]; list.append(ias)
As2Measure ==
    /\ pc = "as2_measure"
    /\ OnAutoGrid(params)
    /\ \E m \in Intensities :
         /\ ias' = Some(NoBaseReading(params, m))
         /\ intensity_list' = Append(intensity_list, NoBaseReading(params, m))
    /\ frames' = frames + 1
    /\ scan' = scan + 1
    /\ pc' = "as2_scan"
    /\ slept' = 0
    /\ UNCHANGED <<calls, sendVars, params, command_list, cycle_num, i,
                   srd_count, spectral_data, k, spectrums, spectrum,
                   srd_seen, trace, log, output, ret, exp, exp_type,
                   sensor_exp, ii>>
    /\ UNCHANGED mainVars

\* the capture gave None, or the wavelength is not a grid label: it raises
As2MeasureFail ==
    /\ pc = "as2_measure"
    /\ frames' = frames + 1
    /\ pc' = "aborted"
    /\ slept' = 0
    /\ UNCHANGED <<calls, sendVars, params, command_list, cycle_num, i,
                   srd_count, spectral_data, k, spectrums, spectrum,
                   srd_seen, trace, log, output, ret, runVars>>

\* sum(intensity_list): NaN as soon as one term is
Total(list) ==
    IF \E q \in 1..Len(list) : list[q] = NaN THEN NaN
    ELSE SumOver([q \in 1..Len(list) |-> list[q]], 1..Len(list))

\* if abs(avg_intensity - autoscaling_intensity) <= threshold: return
As2Converge ==
    /\ pc = "as2_scan"
    /\ scan >= params.number_of_autoscaling
    /\ Converged(Total(intensity_list), Len(intensity_list), params)
    /\ pc' = "auto_done"
    /\ slept' = 0
    /\ UNCHANGED <<calls, sendVars, cycleVars, ret, runVars>>

\* else: the exposure is corrected and set, then four warm-up reads
As2Correct ==
    /\ pc = "as2_scan"
    /\ scan >= params.number_of_autoscaling
    /\ ~Converged(Total(intensity_list), Len(intensity_list), params)
    /\ ~Correct2Raises(exp_type, Total(intensity_list))
    /\ exp' = Correct2(exp, Total(intensity_list), Len(intensity_list), params)
    /\ sensor_exp' = SetExp(exp')
    /\ frames' = frames + WARMUP_READS
    /\ pc' = "as2_round"
    /\ slept' = 0
    /\ UNCHANGED <<calls, sendVars, params, command_list, cycle_num, i,
                   srd_count, spectral_data, k, spectrums, spectrum,
                   srd_seen, trace, log, output, ret, exp_type, ias, ii,
                   scan, intensity_list>>
    /\ UNCHANGED mainVars

\* else: int(spectrometer.exp * pias) raises
As2CorrectFail ==
    /\ pc = "as2_scan"
    /\ scan >= params.number_of_autoscaling
    /\ ~Converged(Total(intensity_list), Len(intensity_list), params)
    /\ Correct2Raises(exp_type, Total(intensity_list))
    /\ pc' = "aborted"
    /\ slept' = 0
    /\ UNCHANGED <<calls, sendVars, cycleVars, ret, runVars>>

\* ------------------------------------------------------------------------
\* command_generator.generate_commands
\* ------------------------------------------------------------------------
\* if params['autoscaling'] == 0: the lamp-on commands of the lamp selector
LampOnCommands(cfg) ==
    IF cfg.autoscaling # 0 THEN <<>>
    ELSE IF cfg.lamp = 0 THEN <<CmdSLD(0, 1)>>
    ELSE IF cfg.lamp = 1 THEN <<CmdSLD(1, 1)>>
    ELSE IF cfg.lamp = 2 THEN <<CmdSLD(0, 1), CmdSLD(1, 1)>>
    ELSE <<>>

\* if offset > 0 and int(offset / pulse_distance) >= 5: one move
\* (offset in ten-thousandths of a millimetre)
OffsetCommands(cfg) ==
    IF cfg.offset > 0 /\ IntTrunc(cfg.offset, PULSE_NUM) >= MIN_PULSES
    THEN <<CmdMLS(IntTrunc(cfg.offset, PULSE_NUM))>>
    ELSE <<>>

\* (variant: a move is generated for any pulse count)
MovesBeforeAcquireAlways(cfg) == TRUE

\* if pulses_per_point >= 5
MovesBeforeAcquire(cfg) == cfg.no_of_pulse_per_point >= MIN_PULSES

\* for _ in range(no_of_point_per_cycle): the move, if any, then "$SRD#"
PointCommands(cfg) ==
    LET n == IF cfg.no_of_point_per_cycle > 0
             THEN cfg.no_of_point_per_cycle ELSE 0
    IN  IF MovesBeforeAcquire(cfg)
        THEN [q \in 1..(2 * n) |->
                IF q % 2 = 1 THEN CmdMLS(cfg.no_of_pulse_per_point)
                ELSE CmdSRD]
        ELSE [q \in 1..n |-> CmdSRD]

generate_commands(cfg) ==
    <<CmdSMPD(cfg.smpd), CmdORI>>
    \o LampOnCommands(cfg)
    \o <<CmdWAIT(cfg.wait_time)>>
    \o OffsetCommands(cfg)
    \o PointCommands(cfg)
    \o <<CmdWAIT(2), CmdORI, CmdUARTLOOP, CmdWAIT(2)>>

\* ------------------------------------------------------------------------
\* main(): initialisation, the stages of a run, and the teardown
\* ------------------------------------------------------------------------
\* an exception leaves the try block: except clause, then finally
Raise ==
    /\ pc' = "aborted"
    /\ slept' = 0

\* stage = StageController(port, fast_mode=False): the port opens
MainStageOpen ==
    /\ pc = "main_start"
    /\ stage' = TRUE
    /\ is_open' = TRUE
    /\ ser_timeout' = default_timeout
    /\ pc' = "spec_init"
    /\ slept' = 0
    /\ UNCHANGED <<calls, fast_mode, command, timeout, retries, response,
                   result, writes, reads, cycleVars, ret, exp, exp_type,
                   sensor_exp, ias, ii, scan, intensity_list, spectrometer,
                   device, cap, finalize_calls, frame, combined, lamps,
                   settings>>

\* serial.Serial raises SerialException, which __init__ raises again
MainStageFail ==
    /\ pc = "main_start"
    /\ Raise
    /\ log' = "init_failed"
    /\ UNCHANGED <<calls, sendVars, params, command_list, cycle_num, i,
                   srd_count, spectral_data, k, spectrums, spectrum, frames,
                   srd_seen, trace, output, ret, runVars>>

\* SpectrometerController.__init__: the DLL file is missing
\* (FileNotFoundError), or SP_Initialize returns non-zero (RuntimeError)
SpecDeviceFail ==
    /\ pc = "spec_init"
    /\ Raise
    /\ log' = "init_failed"
    /\ UNCHANGED <<calls, sendVars, params, command_list, cycle_num, i,
                   srd_count, spectral_data, k, spectrums, spectrum, frames,
                   srd_seen, trace, output, ret, runVars>>

\* self.exp = exp; SP_Initialize returns 0
SpecDeviceInit ==
    /\ pc = "spec_init"
    /\ exp' = params.exp
    /\ exp_type' = "int"
    /\ device' = "initialized"
    /\ pc' = "spec_settings"
    /\ slept' = 0
    /\ UNCHANGED <<calls, sendVars, cycleVars, ret, sensor_exp, ias, ii,
                   scan, intensity_list, stage, spectrometer, cap,
                   finalize_calls, frame, combined, lamps, settings>>

\* _read_device_settings: SP_DataRead returns 0 and the JSON text is usable
SpecSettingsRead ==
    /\ pc = "spec_settings"
    /\ settings' = "device"
    /\ pc' = "spec_camera"
    /\ slept' = 0
    /\ UNCHANGED <<calls, sendVars, cycleVars, ret, exp, exp_type,
                   sensor_exp, ias, ii, scan, intensity_list, stage,
                   spectrometer, device, cap, finalize_calls, frame,
                   combined, lamps>>

\* SP_DataRead fails or the text is not JSON: an error is logged and the
\* default wavelength axis is generated
SpecSettingsDefault ==
    /\ pc = "spec_settings"
    /\ settings' = "default"
    /\ log' = "init_failed"
    /\ pc' = "spec_camera"
    /\ slept' = 0
    /\ UNCHANGED <<calls, sendVars, params, command_list, cycle_num, i,
                   srd_count, spectral_data, k, spectrums, spectrum, frames,
                   srd_seen, trace, output, ret, exp, exp_type, sensor_exp,
                   ias, ii, scan, intensity_list, stage, spectrometer,
                   device, cap, finalize_calls, frame, combined, lamps>>

\* the JSON text holds a field that int() or float() rejects: ValueError
SpecSettingsRaise ==
    /\ pc = "spec_settings"
    /\ Raise
    /\ log' = "init_failed"
    /\ UNCHANGED <<calls, sendVars, params, command_list, cycle_num, i,
                   srd_count, spectral_data, k, spectrums, spectrum, frames,
                   srd_seen, trace, output, ret, runVars>>

\* _initialize_camera: a 1280x800 camera is found, gain and exposure set;
\* __init__ returns and main's `spectrometer` is bound
SpecCameraFound ==
    /\ pc = "spec_camera"
    /\ cap' = "open"
    /\ sensor_exp' = exp
    /\ spectrometer' = TRUE
    /\ pc' = "main_ready"
    /\ slept' = 0
    /\ UNCHANGED <<calls, sendVars, cycleVars, ret, exp, exp_type, ias, ii,
                   scan, intensity_list, stage, device, finalize_calls,
                   frame, combined, lamps,
                   settings>>

\* none of the five indices gives a 1280x800 camera: RuntimeError
SpecCameraMissing ==
    /\ pc = "spec_camera"
    /\ Raise
    /\ log' = "init_failed"
    /\ UNCHANGED <<calls, sendVars, params, command_list, cycle_num, i,
                   srd_count, spectral_data, k, spectrums, spectrum, frames,
                   srd_seen, trace, output, ret, runVars>>

\* if params['autoscaling'] == 1: perform_autoscaling(...)
MainAutoscale ==
    /\ pc = "main_ready"
    /\ params.autoscaling = 1
    /\ pc' = "as_ori"
    /\ slept' = 0
    /\ UNCHANGED <<calls, sendVars, cycleVars, ret, runVars>>

\* command_list = generate_commands(params); the autoscalers' locals are gone
MainGenerate ==
    /\ \/ pc = "auto_done"
       \/ (pc = "main_ready" /\ params.autoscaling # 1)
    /\ command_list' = generate_commands(params)
    /\ cycle_num' = 1
    /\ i' = 1
    /\ frames' = 0
    /\ log' = "none"
    /\ ias' = None
    /\ ii' = 0
    /\ scan' = 0
    /\ intensity_list' = <<>>
    /\ pc' = "cycle_start"
    /\ slept' = 0
    /\ UNCHANGED <<calls, sendVars, params, srd_count, spectral_data, k,
                   spectrums, spectrum, srd_seen, trace, output, ret, exp,
                   exp_type, sensor_exp, mainVars>>

\* after the cycles: lamp 0 -> "$SLD0,0#"; 1 -> "$SLD1,0#"; 2 -> "$SLD0,0#"
MainLampOff ==
    /\ pc = "finished"
    /\ params.lamp \in {0, 1, 2}
    /\ CallSend(CmdSLD(IF params.lamp = 1 THEN 1 ELSE 0, 0), None,
                IF params.lamp = 2 THEN "lamp_off2" ELSE "excel")
    /\ lamps' = LampsAfter(CmdSLD(IF params.lamp = 1 THEN 1 ELSE 0, 0))
    /\ UNCHANGED <<calls, cycleVars, callerVars>>

\* (variant: the second channel of lamp 2 is left on)
MainLampOffSecondSkipped ==
    /\ pc = "lamp_off2"
    /\ pc' = "excel"
    /\ slept' = 0
    /\ UNCHANGED <<calls, sendVars, cycleVars, ret, runVars>>

\* lamp 2: then "$SLD1,0#"
MainLampOffSecond ==
    /\ pc = "lamp_off2"
    /\ CallSend(CmdSLD(1, 0), None, "excel")
    /\ lamps' = LampsAfter(CmdSLD(1, 0))
    /\ UNCHANGED <<calls, cycleVars, callerVars>>

\* any other lamp value: no lamp command
MainLampOffNone ==
    /\ pc = "finished"
    /\ params.lamp \notin {0, 1, 2}
    /\ pc' = "excel"
    /\ slept' = 0
    /\ UNCHANGED <<calls, sendVars, cycleVars, ret, runVars>>

\* excel_writer.write_to_excel(...) returns: the try block is left normally
MainExcel ==
    /\ pc = "excel"
    /\ pc' = "run_end"
    /\ slept' = 0
    /\ UNCHANGED <<calls, sendVars, cycleVars, ret, runVars>>

\* excel_writer.write_to_excel(...) raises
MainExcelFail ==
    /\ pc = "excel"
    /\ Raise
    /\ UNCHANGED <<calls, sendVars, cycleVars, ret, runVars>>

\* if spectrometer: spectrometer.finalize()
TeardownFinalizes == spectrometer

\* finally: the port is closed if open; finalize() releases the camera if
\* open and calls SP_Finalize
MainTeardown ==
    /\ pc \in {"run_end", "aborted"}
    /\ is_open' = IF stage /\ is_open THEN FALSE ELSE is_open
    /\ IF TeardownFinalizes
       THEN /\ cap' = IF cap = "open" THEN "released" ELSE cap
            /\ finalize_calls' = finalize_calls + 1
            /\ device' = "finalized"
       ELSE UNCHANGED <<cap, finalize_calls, device>>
    /\ pc' = "exited"
    /\ slept' = 0
    /\ UNCHANGED <<calls, fast_mode, ser_timeout, command, timeout, retries,
                   response, result, writes, reads, cycleVars, ret, exp,
                   exp_type, sensor_exp, ias, ii, scan, intensity_list,
                   stage, spectrometer, settings, frame, combined, lamps>>

\* ------------------------------------------------------------------------
\* Specification of the two autoscaling stages, as main() runs them
\* ------------------------------------------------------------------------
AutoParamSets ==
    [lamp : 0..3,
     exp : Exposures,
     autoscaling_wavelength : {CANON_START + CanonStep, AUTO_END + 1},
     autoscaling_intensity : {100},
     autoscaling_threshold : {50},
     autoscaling_position : {10},
     number_of_autoscaling : {0, 2},
     no_of_pulse_per_point : {5},
     no_of_point_per_cycle : {1},
     no_of_drop : {1},
     no_of_average : {1},
     np_of_cycle : {1},
     baseline_start : {CANON_START},
     baseline_end : {CANON_END, CANON_START - 20},
     sampling_wavelength : {CANON_START + CanonStep}]

\* main(): if params['autoscaling'] == 1: perform_autoscaling(...)
InitAuto ==
    /\ pc = "as_ori"
    /\ calls = 0
    /\ ret = "as_ori"
    /\ InitController(FALSE)
    /\ \E cfg \in AutoParamSets :
         /\ InitCycleVars(cfg, <<>>)
         /\ InitSpectrometer(cfg.exp)

NextAuto ==
    \/ AsHome
    \/ AsMove
    \/ AsLamp
    \/ AsLampSecond
    \/ AsLampNone
    \/ AsSettle
    \/ AsWarmup
    \/ AsMeasureFail
    \/ AsConverge
    \/ AsCorrect
    \/ AsExhausted
    \/ AsManual
    \/ As2Skip
    \/ As2Begin
    \/ As2Round
    \/ As2Move
    \/ As2ScanMove
    \/ As2Measure
    \/ As2MeasureFail
    \/ As2Converge
    \/ As2Correct
    \/ As2CorrectFail
    \/ ReturnTo
    \/ SendBegin
    \/ SendWrite
    \/ SendWriteError
    \/ SendExhausted
    \/ SendReadError
    \/ SendOk
    \/ SendRetry

SpecAuto == InitAuto /\ [][NextAuto]_vars

\* ------------------------------------------------------------------------
\* Specification of a whole run of main()
\* ------------------------------------------------------------------------
\* One sweep configuration per combination of what main() and
\* generate_commands branch on; the autoscaled runs sweep a single point
\* without a move, and the runs of two cycles use both lamp channels
RunParamSets ==
    { cfg \in [autoscaling : {0, 1},
               lamp : 0..3,
               smpd : {4},
               wait_time : {1},
               offset : {0, 2000},
               exp : {DEFAULT_EXP},
               autoscaling_wavelength : {CANON_START + CanonStep},
               autoscaling_intensity : {100},
               autoscaling_threshold : {50},
               autoscaling_position : {10},
               number_of_autoscaling : {0, 2},
               no_of_pulse_per_point : {MIN_PULSES - 1, MIN_PULSES},
               no_of_point_per_cycle : {1, MaxPoints},
               no_of_drop : {1},
               no_of_average : {1},
               np_of_cycle : {1, 2},
               baseline_start : {CANON_END - 10},
               baseline_end : {CANON_END},
               sampling_wavelength : {CANON_START + CanonStep}] :
        /\ cfg.autoscaling = 0 =>
             /\ cfg.number_of_autoscaling = 0
             /\ cfg.no_of_point_per_cycle = MaxPoints
        /\ cfg.autoscaling = 1 =>
             /\ cfg.lamp # 2 => cfg.number_of_autoscaling = 0
             /\ cfg.offset = 0
             /\ cfg.no_of_pulse_per_point = MIN_PULSES - 1
             /\ cfg.no_of_point_per_cycle = 1
        /\ cfg.offset > 0 => cfg.lamp = 0
        /\ cfg.np_of_cycle > 1 =>
             /\ cfg.lamp = 2
             /\ cfg.number_of_autoscaling = 0
             /\ cfg.no_of_pulse_per_point = MIN_PULSES - 1 }

\* main(): stage = None; spectrometer = None; the parameters are loaded
InitRun ==
    /\ pc = "main_start"
    /\ calls = 0
    /\ ret = "main_start"
    /\ fast_mode = FALSE
    /\ is_open = FALSE
    /\ ser_timeout = default_timeout
    /\ command = <<>>
    /\ timeout = None
    /\ retries = 0
    /\ response = None
    /\ result = None
    /\ writes = 0
    /\ reads = 0
    /\ slept = 0
    /\ stage = FALSE
    /\ spectrometer = FALSE
    /\ device = "none"
    /\ cap = "none"
    /\ finalize_calls = 0
    /\ settings = "unread"
    /\ frame = <<>>
    /\ lamps = <<>>
    /\ combined = None
    /\ \E cfg \in RunParamSets :
         /\ InitCycleVars(cfg, <<>>)
         /\ exp = cfg.exp
    /\ exp_type = "int"
    /\ sensor_exp = 0
    /\ ias = None
    /\ ii = 0
    /\ scan = 0
    /\ intensity_list = <<>>

NextRun ==
    \/ MainStageOpen
    \/ MainStageFail
    \/ SpecDeviceFail
    \/ SpecDeviceInit
    \/ SpecSettingsRead
    \/ SpecSettingsDefault
    \/ SpecSettingsRaise
    \/ SpecCameraFound
    \/ SpecCameraMissing
    \/ MainAutoscale
    \/ MainGenerate
    \/ MainLampOff
    \/ MainLampOffSecond
    \/ MainLampOffNone
    \/ MainExcel
    \/ MainExcelFail
    \/ MainTeardown
    \/ AsHome
    \/ AsMove
    \/ AsLamp
    \/ AsLampSecond
    \/ AsLampNone
    \/ AsSettle
    \/ AsWarmup
    \/ AsMeasureFail
    \/ AsConverge
    \/ AsCorrect
    \/ AsExhausted
    \/ AsManual
    \/ As2Skip
    \/ As2Begin
    \/ As2Round
    \/ As2Move
    \/ As2ScanMove
    \/ As2Measure
    \/ As2MeasureFail
    \/ As2Converge
    \/ As2Correct
    \/ As2CorrectFail
    \/ ReturnTo
    \/ StartCycle
    \/ CyclesDone
    \/ CmdWait
    \/ CmdSrdBegin
    \/ SrdDrop
    \/ SrdAvgFrame
    \/ SrdAvgFail
    \/ SrdStore
    \/ SrdFailed
    \/ CmdSend
    \/ AfterSend
    \/ CycleProcess
    \/ SendBegin
    \/ SendWrite
    \/ SendWriteError
    \/ SendExhausted
    \/ SendReadError
    \/ SendLoopback
    \/ SendOk
    \/ SendRetry

SpecRun == InitRun /\ [][NextRun]_vars

\* ------------------------------------------------------------------------
\* SpectrometerController._process_frame, and its specification
\* ------------------------------------------------------------------------
\* Raw rows: bytes at the ends of the range and on both sides of the offset,
\* in rows of even and of odd length
RawFrames ==
    UNION {[1..n -> {0, LOW_OFFSET - 1, LOW_OFFSET, 255}] : n \in 1..MaxFrame}

\* a | b for a, b >= 0
RECURSIVE BitOr(_, _)
BitOr(a, b) ==
    IF a = 0 THEN b
    ELSE IF b = 0 THEN a
    ELSE (IF a % 2 = 1 \/ b % 2 = 1 THEN 1 ELSE 0) + 2 * BitOr(a \div 2, b \div 2)

\* high_bits = frame[0][::2]; low_bits = frame[0][1::2], with one 0 appended
\* when it is the shorter; ((high_bits << 4) | (low_bits - 128)) as uint16.
\* The subtraction is made in uint16 (in int64 after np.append) and the
\* result is cast to uint16: either way the 16 low bits of the two's
\* complement value remain.
ProcessFrame(f) ==
    LET high_bits == [q \in 1..((Len(f) + 1) \div 2) |-> f[2 * q - 1]]
        low_read == [q \in 1..(Len(f) \div 2) |-> f[2 * q]]
        low_bits == IF Len(high_bits) > Len(low_read)
                    THEN Append(low_read, 0) ELSE low_read
    IN  [q \in 1..Len(high_bits) |->
            BitOr((high_bits[q] * HIGH_SCALE) % WORD,
                  (low_bits[q] - LOW_OFFSET) % WORD) % WORD]

\* combined = self._process_frame(frame)
DecodeFrame ==
    /\ pc = "decode"
    /\ combined' = Some(ProcessFrame(frame))
    /\ pc' = "decoded"
    /\ slept' = 0
    /\ UNCHANGED <<calls, sendVars, cycleVars, ret, exp, exp_type,
                   sensor_exp, ias, ii, scan, intensity_list, stage,
                   spectrometer, device, cap, finalize_calls, settings,
                   frame, lamps>>

\* read_spectrum_single: ret, frame = self.cap.read() gave a frame
InitDecode ==
    /\ pc = "decode"
    /\ calls = 0
    /\ ret = "idle"
    /\ InitController(FALSE)
    /\ InitCycleVars(CHOOSE cfg \in ParamSets : TRUE, <<>>)
    /\ stage = TRUE
    /\ spectrometer = TRUE
    /\ device = "initialized"
    /\ cap = "open"
    /\ finalize_calls = 0
    /\ settings = "device"
    /\ exp = DEFAULT_EXP
    /\ exp_type = "int"
    /\ sensor_exp = DEFAULT_EXP
    /\ ias = None
    /\ ii = 0
    /\ scan = 0
    /\ intensity_list = <<>>
    /\ frame \in RawFrames
    /\ lamps = <<>>
    /\ combined = None

NextDecode == DecodeFrame

SpecDecode == InitDecode /\ [][NextDecode]_vars

\* ------------------------------------------------------------------------
\* Properties of send_command (checked under SpecSend)
\* ------------------------------------------------------------------------
ChannelErrorResults == {ERR_PORT, ERR_SERIAL, ERR_OTHER}

\* C1: in verified mode, a call for a command other than the loopback test
\* whose responses were all non-success and that met no channel exception
\* has written the command max_retries+1 times and returns "$NACK#".
C1_ExhaustedRetries ==
    ( /\ pc = "returned"
      /\ ~fast_mode
      /\ command # CmdUARTLOOP
      /\ response # None
      /\ response[1] # RespOK
      /\ result \notin ChannelErrorResults )
    => (writes = max_retries + 1 /\ result = RespNACK)

C1_Witness ==
    /\ pc = "returned"
    /\ ~fast_mode
    /\ command = CmdORI
    /\ response = Some(<<>>)
    /\ result = RespNACK
    /\ reads = max_retries + 1

\* C2: whenever a verified-mode call that was given a timeout override
\* returns, the channel timeout equals the default timeout.
C2_TimeoutRestored ==
    (pc = "returned" /\ ~fast_mode /\ timeout # None)
    => ser_timeout = default_timeout

\* C3: in verified mode a call for a command other than the loopback test
\* returns success exactly when an attempt received exactly "$OK#", at that
\* attempt and without a further write; any other response consumes one
\* attempt and leads to a retry; there are at most max_retries+1 attempts.
C3_SuccessIffOk ==
    [][ (~fast_mode /\ command # CmdUARTLOOP) =>
        /\ writes' <= max_retries + 1
        /\ (pc' = "returned" /\ pc # "returned" /\ result' # ERR_PORT) =>
             (result' = RespOK <=>
                 (pc = "send_read" /\ response' # None /\ response'[1] = RespOK))
        /\ (pc = "send_read" /\ ~(pc' = "returned" /\ result' \in ChannelErrorResults)) =>
             /\ writes' = writes
             /\ IF response'[1] = RespOK
                THEN pc' = "returned" /\ result' = RespOK /\ retries' = retries
                ELSE pc' = "send_loop" /\ retries' = retries + 1
      ]_vars

C3_Witness ==
    /\ pc = "returned"
    /\ ~fast_mode
    /\ command = CmdMLS(MLS_THRESHOLD + 1)
    /\ result = RespOK
    /\ retries = max_retries
    /\ writes = max_retries + 1

\* C12: in verified mode a loopback test that received a response completes
\* on that first response, after one write and one read; it reports success
\* exactly when the response equals the loopback token, failure for any other
\* response, and on return the channel timeout equals the default.
C12_LoopbackFirstResponse ==
    ( /\ pc = "returned"
      /\ ~fast_mode
      /\ command = CmdUARTLOOP
      /\ response # None )
    => /\ writes = 1
       /\ reads = 1
       /\ retries = 0
       /\ result = (IF response[1] = CmdUARTLOOP THEN LOOP_GOOD ELSE LOOP_BAD)
       /\ ser_timeout = default_timeout

C12_Witness ==
    /\ pc = "returned"
    /\ ~fast_mode
    /\ command = CmdUARTLOOP
    /\ timeout = Some(LONG_TIMEOUT)
    /\ response = Some(RespNACK)
    /\ result = LOOP_BAD

\* C13 (as stated): in fast mode every call returns success after exactly
\* one write and no read.
C13_FastAlwaysOk ==
    (pc = "returned" /\ fast_mode)
    => (writes = 1 /\ reads = 0 /\ result = RespOK)

\* C13 (amended): in fast mode, with the port open, a call never reads a
\* response and makes one write; it returns success exactly when that write
\* completed and "$NACK#" exactly when the write raised.
C13_FastNoRead ==
    (pc = "returned" /\ fast_mode /\ result # ERR_PORT)
    => /\ reads = 0
       /\ response = None
       /\ retries = 0
       /\ \/ (writes = 1 /\ result = RespOK /\ slept \in {0, BACKOFF})
          \/ (writes = 0 /\ result = RespNACK)

C13_Witness ==
    /\ pc = "returned"
    /\ fast_mode
    /\ command = CmdORI
    /\ writes = 1
    /\ result = RespOK
    /\ slept = BACKOFF

\* C14: in verified mode every write after the first of a call is preceded
\* by the 0.5 s backoff sleep.
C14_BackoffBetweenAttempts ==
    [][ (~fast_mode /\ pc = "send_loop" /\ pc' = "send_read" /\ writes >= 1)
        => slept = BACKOFF ]_vars

\* C29: a verified-mode call sets the channel timeout to the default and
\* then to its override, if it has one; during every attempt of a call
\* without override the channel timeout is the default, whatever the call
\* before it left behind.
C29_DefaultBeforeOverride ==
    [][ ~fast_mode =>
          /\ (pc = "send_enter" /\ pc' = "send_loop") =>
                ser_timeout' = IF timeout # None THEN timeout[1]
                               ELSE default_timeout
          /\ (pc' \in {"send_loop", "send_read"} /\ timeout' = None) =>
                ser_timeout' = default_timeout
      ]_vars

C29_Witness ==
    /\ pc = "send_read"
    /\ ~fast_mode
    /\ calls = MaxCalls
    /\ timeout = None
    /\ result = RespNACK
    /\ retries = max_retries
    /\ ser_timeout = default_timeout

\* ------------------------------------------------------------------------
\* Properties of the autoscaling stages (checked under SpecAuto)
\* ------------------------------------------------------------------------
Target == params.autoscaling_intensity
Tolerance == params.autoscaling_threshold

\* A measurement of the single-point autoscaler that returned a value
Measured == pc = "as_measure" /\ pc' # "aborted"

\* C17 (as stated): the single-point autoscaler measures only while fewer
\* than 20 iterations are done; a measurement within the tolerance band
\* (inclusive) ends it with the exposure untouched; every other measurement
\* changes the exposure.
C17_IterationChangesExposure ==
    [][ Measured =>
          /\ i < AUTOSCALE_CAP
          /\ IF Abs(ias'[1] - Target) <= Tolerance
             THEN /\ pc' = "as2_enter"
                  /\ exp' = exp
                  /\ sensor_exp' = sensor_exp
             ELSE /\ pc' = "as_iter"
                  /\ exp' # exp
      ]_vars

\* The integer part of exp * target / measured is exp itself
TruncationKeeps(e, m) ==
    /\ m > 0
    /\ e * m <= e * Target
    /\ e * Target < (e + 1) * m

\* C17 (amended): the single-point autoscaler measures only while fewer than
\* 20 iterations are done; a measurement within the tolerance band
\* (inclusive) ends it with the exposure untouched; every other measurement
\* counts one iteration and sets an exposure in 1..899 on the controller and
\* on the sensor, which equals the previous one only at a limit of the range
\* or when the truncated product is the previous value.
C17_IterationCorrects ==
    [][ Measured =>
          /\ i < AUTOSCALE_CAP
          /\ IF Abs(ias'[1] - Target) <= Tolerance
             THEN /\ pc' = "as2_enter"
                  /\ i' = i
                  /\ exp' = exp
                  /\ sensor_exp' = sensor_exp
             ELSE /\ pc' = "as_iter"
                  /\ i' = i + 1
                  /\ exp' \in EXP_MIN..EXP_MAX
                  /\ sensor_exp' = exp'
                  /\ exp' = exp =>
                       \/ exp \in {EXP_MIN, EXP_MAX}
                       \/ TruncationKeeps(exp, ias'[1])
      ]_vars

C17_Witness ==
    /\ pc = "as2_enter"
    /\ i = AUTOSCALE_CAP - 1
    /\ ias = Some(50)
    /\ exp = EXP_MAX
    /\ exp_type = "int"

\* The averaging autoscaler's correction raised an exception
CorrectionRaised ==
    /\ pc = "aborted"
    /\ ii >= 1
    /\ params.number_of_autoscaling > 0
    /\ scan = params.number_of_autoscaling
    /\ Len(intensity_list) = params.number_of_autoscaling

\* C18: once the single-point autoscaler has given up and the operator has
\* typed an exposure, that value is the controller's exposure and the one
\* set on the sensor, and the run is not aborted by the stage that follows.
C18_ManualExposureInEffect ==
    exp_type = "str" =>
        /\ exp \in ManualExposures
        /\ sensor_exp = exp
        /\ ~CorrectionRaised

\* C19: in neither autoscaler does an intensity that stays outside the
\* tolerance band end the run with an exception or keep the autoscaler
\* iterating beyond the iteration cap; it ends in the manual entry.
C19_NonConvergenceNonFatal ==
    /\ ~CorrectionRaised
    /\ i <= AUTOSCALE_CAP
    /\ ii <= AUTOSCALE_CAP
    /\ (pc = "as_manual" => i = AUTOSCALE_CAP)

\* A completed correction step of either autoscaler
CorrectionStep ==
    \/ (pc = "as_measure" /\ pc' = "as_iter")
    \/ (pc = "as2_scan" /\ pc' = "as2_round")

\* The correction asks for a longer exposure: the single-point measurement
\* is below the target, or the average is positive and below the target
IncreaseRequested ==
    \/ (pc = "as_measure" /\ ias'[1] < Target)
    \/ /\ pc = "as2_scan"
       /\ Total(intensity_list) > 0
       /\ Total(intensity_list) < Len(intensity_list) * Target

RoundHalfUp(num, den) == (2 * num + den) \div (2 * den)

\* The same, a tie going to the even neighbour (Python's round)
RoundHalfEven(num, den) ==
    IF (2 * num) % (2 * den) = den /\ (num \div den) % 2 = 0
    THEN num \div den
    ELSE RoundHalfUp(num, den)

\* C21: the correction step of the single-point autoscaler sets the exposure
\* to clamp(round(exposure * target / measured), 1, 899), rounded to the
\* nearest integer (under either convention for a tie), for a measurement
\* above zero, and to the clamped double of the exposure for a measurement of
\* zero or less.
C21_RoundedCorrection ==
    [][ (pc = "as_measure" /\ pc' = "as_iter") =>
          IF ias'[1] > 0
          THEN exp' \in { Clamp(RoundHalfUp(exp * Target, ias'[1])),
                          Clamp(RoundHalfEven(exp * Target, ias'[1])) }
          ELSE exp' = Clamp(2 * exp)
      ]_vars

\* The averaging autoscaler has measured every scan position of a round and
\* the average is outside the tolerance band
AveragedCorrectionDue ==
    /\ pc = "as2_scan"
    /\ scan >= params.number_of_autoscaling
    /\ exp_type = "int"
    /\ Total(intensity_list) # NaN
    /\ Abs(Total(intensity_list) - Len(intensity_list) * Target)
           > Len(intensity_list) * Tolerance

\* C22: the correction step of the averaging autoscaler completes and sets
\* the exposure the single-point step sets for the same exposure, target and
\* measured value (the average), a value of zero or less included.
C22_SameCorrectionStep ==
    [][ AveragedCorrectionDue =>
          /\ pc' = "as2_round"
          /\ exp' = IF Total(intensity_list) > 0
                    THEN Clamp(IntTrunc(exp * Target * Len(intensity_list),
                                        Total(intensity_list)))
                    ELSE Clamp(2 * exp)
      ]_vars

\* C23: with a repeat count of zero the averaging autoscaler returns at
\* once: no command is sent to the controller, no frame is captured, and the
\* exposure of the controller and of the sensor is unchanged.
C23_DisabledIsNoOp ==
    [][ (pc = "as2_enter" /\ params.number_of_autoscaling = 0) =>
          /\ pc' = "auto_done"
          /\ writes' = writes
          /\ reads' = reads
          /\ command' = command
          /\ frames' = frames
          /\ exp' = exp
          /\ exp_type' = exp_type
          /\ sensor_exp' = sensor_exp
      ]_vars

C23_Witness ==
    /\ pc = "auto_done"
    /\ params.number_of_autoscaling = 0
    /\ ias = Some(50)
    /\ exp = 2 * params.exp
    /\ sensor_exp = exp
    /\ writes = 0

\* The single-point autoscaler has not reached its loop yet
BeforeAutoLoop ==
    \/ pc \in {"as_ori", "as_move", "as_lamp", "as_lamp2", "as_settle"}
    \/ /\ pc \in {"send_enter", "send_loop", "send_read", "returned"}
       /\ ret \in {"as_move", "as_lamp", "as_lamp2", "as_settle"}

\* The move to the autoscaling position
AutoMove == CmdMLS(PulsesFor(params.autoscaling_position))

\* C25: in the single-point autoscaler no frame is captured before the loop;
\* the loop is entered only from the 15 s settle wait; the wait starts only
\* when the lamp-on command of the last selected channel has returned (for
\* the selector 2, channel 1 after channel 0); the first lamp-on command is
\* sent only when the move to the autoscaling position has returned.
C25_MoveLampSettleCapture ==
    [][ /\ BeforeAutoLoop => frames = 0
        /\ pc' = "as_measure" => pc = "as_iter"
        /\ pc' = "as_iter" =>
             \/ pc = "as_measure"
             \/ (pc = "as_settle" /\ slept' = LAMP_SETTLE /\ frames = 0)
        /\ (pc' = "as_settle" /\ pc # "as_settle") =>
             IF params.lamp \in {0, 1, 2}
             THEN /\ pc = "returned"
                  /\ command = CmdSLD(IF params.lamp = 0 THEN 0 ELSE 1, 1)
             ELSE pc = "as_lamp"
        /\ (pc' = "send_enter" /\ command' = CmdSLD(1, 1)) =>
             pc = (IF params.lamp = 2 THEN "as_lamp2" ELSE "as_lamp")
        /\ (pc' = "as_lamp2" /\ pc # "as_lamp2") =>
             /\ pc = "returned"
             /\ command = CmdSLD(0, 1)
             /\ params.lamp = 2
        /\ (pc' = "send_enter" /\ command' = CmdSLD(0, 1)) => pc = "as_lamp"
        /\ (pc' = "as_lamp" /\ pc # "as_lamp") =>
             /\ pc = "returned"
             /\ command = AutoMove
             /\ timeout = Some(MOVE_TIMEOUT)
        /\ (pc' = "send_enter" /\ command' = AutoMove /\ ret' = "as_lamp") =>
             pc = "as_move"
      ]_vars

C25_Witness ==
    /\ pc = "as_measure"
    /\ params.lamp = 2
    /\ i = 0
    /\ frames = WARMUP_READS
    /\ ias = None

\* C26: when no point of the resampling grid falls inside the baseline band,
\* the autoscaler's baseline-corrected measurement hands over the resampled
\* intensity as it is.
C26_EmptyBandPassesThrough ==
    [][ ( /\ pc \in {"as_measure", "as2_measure"}
          /\ pc' # "aborted"
          /\ AutoBaselineMask(params) = {} )
        => ias'[1] \in Intensities
      ]_vars

\* ------------------------------------------------------------------------
\* Properties of the cycle loop (checked under Spec)
\* ------------------------------------------------------------------------
PointCount == params.no_of_point_per_cycle

\* The commands of the grammar, by the way they are written
WaitCommands == {CmdWAIT(n) : n \in 0..(WaitSeconds + 1)}

LargeMoves == {CmdMLS(n) : n \in (MLS_THRESHOLD + 1)..(MLS_THRESHOLD + 10)}

\* C4: the acquisition counter stays within 0..point count, and no sample
\* is ever about to be written, or written, at a column index >= the point
\* count, whatever the command sequence.
C4_CounterWithinBounds ==
    /\ 0 <= srd_count
    /\ srd_count <= PointCount
    /\ (pc = "srd_store" /\ spectrum # None) => srd_count < PointCount
    /\ pc \in {"srd_drop", "srd_avg"} => srd_count < PointCount
    /\ pc # "aborted"

C4_Witness ==
    /\ pc = "cmd"
    /\ srd_seen > PointCount
    /\ srd_count = PointCount
    /\ PointCount >= 1
    /\ log = "extra_srd"

\* C5: the commands of the sequence are executed one at a time, each once
\* and in the generated order; whatever send_command returns, it returns
\* (it never raises), the next command is taken, and the cycle ends only
\* after the last command.
C5_SequentialNoAbort ==
    [][ /\ pc' # "aborted"
        /\ pc = "returned" => (pc' = "cmd" /\ i' = i + 1 /\ trace' = trace)
        /\ (trace' # trace /\ pc # "cycle_start") =>
             /\ pc = "cmd"
             /\ Len(trace) = i - 1
             /\ trace' = Append(trace, trace'[i])
             /\ trace'[i].idx = i
        /\ (i' # i /\ pc # "cycle_start") => (i' = i + 1 /\ Len(trace') = i)
        /\ (pc = "cmd" /\ pc' = "cycle_start") =>
             /\ Len(trace) = Len(command_list)
             /\ \A j \in 1..Len(trace) : trace[j].idx = j
      ]_vars

C5_Witness ==
    /\ pc = "returned"
    /\ result = RespNACK
    /\ writes = max_retries + 1
    /\ i < Len(command_list)

\* C6: after a cycle, a point that received no sample cannot be confused in
\* the cycle's output with a point whose valid measured sample is zero.
C6_UnsetDistinguishable ==
    output # None =>
        \A p, q \in 1..PointCount :
            (p > srd_count /\ q <= srd_count /\ spectral_data[q] = DarkFrame)
            => output[1].total[p] # output[1].total[q]

\* C7: every stored sample sits in the column of the point at which it was
\* measured: the sample of the n-th acquire command goes to column n-1.
C7_SampleInOwnColumn ==
    (pc = "srd_store" /\ spectrum # None) => srd_count = srd_seen - 1

\* C8: an acquire command executed while the counter equals the point count
\* is skipped: it captures and discards no frame and leaves the raw matrix
\* and the counter unchanged.
C8_SkipAtCapacity ==
    [][ ( /\ pc = "cmd"
          /\ i <= Len(command_list)
          /\ command_list[i] = CmdSRD
          /\ srd_count = PointCount )
        => ( /\ pc' = "cmd"
             /\ i' = i + 1
             /\ frames' = 0
             /\ spectral_data' = spectral_data
             /\ srd_count' = srd_count )
      ]_vars

C8_Witness ==
    /\ log = "extra_srd"
    /\ frames = 0
    /\ slept = SETTLE
    /\ srd_count = PointCount
    /\ PointCount > 0

\* C9: a wait command suspends execution for the duration it carries and
\* does no device I/O: no write to or read from the controller channel, no
\* sensor capture, and the raw matrix and the counter are unchanged.
C9_WaitNoIO ==
    [][ \A n \in 0..(WaitSeconds + 1) :
          ( /\ pc = "cmd"
            /\ i <= Len(command_list)
            /\ command_list[i] = CmdWAIT(n) )
          => ( /\ slept' = n * TENTHS
               /\ pc' = "cmd"
               /\ i' = i + 1
               /\ writes' = writes
               /\ reads' = reads
               /\ frames' = 0
               /\ ser_timeout' = ser_timeout
               /\ spectral_data' = spectral_data
               /\ srd_count' = srd_count )
      ]_vars

C9_Witness ==
    /\ pc = "cmd"
    /\ i > 1
    /\ command_list[i - 1] = CmdWAIT(WaitSeconds)
    /\ slept = WaitSeconds * TENTHS

\* C10: every command that is neither wait nor acquire is dispatched through
\* send_command exactly once per cycle, with the 15 s timeout exactly when
\* it is "$ORI#" or a move of more than 20 pulses, and with no override for
\* every other command.
ExpectedTimeout(cmd) ==
    IF cmd = CmdORI \/ cmd \in LargeMoves THEN Some(LONG_TIMEOUT) ELSE None

C10_DispatchTimeout ==
    /\ pc = "send_enter" =>
         /\ command = command_list[i]
         /\ command \notin WaitCommands \cup {CmdSRD}
         /\ timeout = ExpectedTimeout(command)
         /\ Len(trace) = i /\ trace[i].kind = "send"
    /\ (pc = "cmd" /\ i > Len(command_list)) =>
         /\ Len(trace) = Len(command_list)
         /\ \A j \in 1..Len(trace) :
              /\ trace[j].idx = j
              /\ trace[j].kind = "send"
                   <=> command_list[j] \notin WaitCommands \cup {CmdSRD}
              /\ trace[j].kind = "send"
                   => trace[j].timeout = ExpectedTimeout(command_list[j])

C10_Witness ==
    /\ pc = "send_enter"
    /\ command = CmdMLS(MLS_THRESHOLD)
    /\ timeout = None
    /\ i = MaxLen

C30_CounterAndColumnsPerCycle ==
    [][ /\ \A c \in 1..Len(spectral_data) :
             c > srd_count => spectral_data[c] = [p \in 1..Pixels |-> 0]
        /\ (srd_count' # srd_count \/ spectral_data' # spectral_data) =>
             \/ pc = "cycle_start"
             \/ /\ pc = "srd_store"
                /\ spectrum # None
                /\ srd_count' = srd_count + 1
                /\ spectral_data' =
                      [spectral_data EXCEPT ![srd_count + 1] = spectrum[1]]
        /\ (pc = "cycle_start" /\ pc' = "cmd") =>
             /\ srd_count' = 0
             /\ spectral_data' = Zeros(PointCount)
             /\ cycle_num' = cycle_num
             /\ cycle_num \in 1..params.np_of_cycle
        /\ (output' # None \/ cycle_num' # cycle_num) =>
             /\ pc = "cmd"
             /\ i > Len(command_list)
             /\ output = None
             /\ output' # None
             /\ Len(output'[1].intensity) = PointCount
             /\ cycle_num \in 1..params.np_of_cycle
             /\ cycle_num' = cycle_num + 1
        /\ pc' = "finished" => cycle_num' = params.np_of_cycle + 1
      ]_vars

C30_Witness ==
    /\ pc = "cmd"
    /\ cycle_num = 2
    /\ i = 2
    /\ PointCount = MaxPoints
    /\ srd_count = 1
    /\ spectral_data[1] # DarkFrame
    /\ spectral_data[2] = DarkFrame

\* ------------------------------------------------------------------------
\* Properties of a whole run (checked under SpecRun)
\* ------------------------------------------------------------------------
\* The commands executed so far in the current cycle, in order
Stream == [q \in 1..Len(trace) |-> command_list[trace[q].idx]]

\* How many of the positions S of the stream hold command c
CountIn(S, c) == Cardinality({q \in S : Stream[q] = c})

\* Positions of the acquire commands in the stream
AcquirePositions == {q \in 1..Len(Stream) : Stream[q] = CmdSRD}

\* Positions of the move commands in the stream
MovePositions == {q \in 1..Len(Stream) : StartsWith(Stream[q], PrefixMLS)}

\* A cycle of a plain sweep has just been processed: no offset, autoscaling
\* disabled, one lamp channel
PlainSweepDone ==
    /\ pc = "cycle_start"
    /\ output # None
    /\ params.autoscaling = 0
    /\ params.offset = 0
    /\ params.lamp \in {0, 1}

\* C11: the commands executed by a cycle of a plain sweep of N points hold
\* one home command before the first acquire, N acquire commands, a move
\* right before each acquire when pulses-per-point >= 5 and no move at all
\* otherwise, and after the last acquire one home command directly followed
\* by one loopback test; the processed result has N columns.
C11_SweepStream ==
    PlainSweepDone =>
        LET first == CHOOSE q \in AcquirePositions :
                        \A r \in AcquirePositions : q <= r
            last == CHOOSE q \in AcquirePositions :
                        \A r \in AcquirePositions : r <= q
            tail == (last + 1)..Len(Stream)
        IN  /\ Len(Stream) = Len(command_list)
            /\ Cardinality(AcquirePositions) = PointCount
            /\ PointCount >= 1
            /\ CountIn(1..(first - 1), CmdORI) = 1
            /\ IF params.no_of_pulse_per_point >= 5
               THEN /\ Cardinality(MovePositions) = PointCount
                    /\ \A q \in AcquirePositions :
                         /\ q > 1
                         /\ Stream[q - 1] = CmdMLS(params.no_of_pulse_per_point)
               ELSE MovePositions = {}
            /\ CountIn(tail, CmdORI) = 1
            /\ CountIn(tail, CmdUARTLOOP) = 1
            /\ \E q \in tail :
                 /\ Stream[q] = CmdORI
                 /\ q + 1 \in tail
                 /\ Stream[q + 1] = CmdUARTLOOP
            /\ Len(spectral_data) = PointCount
            /\ Len(output[1].total) = PointCount
            /\ Len(output[1].intensity) = PointCount

C11_Witness ==
    /\ PlainSweepDone
    /\ params.lamp = 1
    /\ params.no_of_pulse_per_point = MIN_PULSES
    /\ PointCount = MaxPoints
    /\ srd_count = MaxPoints
    /\ Len(trace) = 2 * MaxPoints + 8

\* C15: when the run has ended and the vendor device was initialized during
\* it, SP_Finalize has been called exactly once and the camera is not left
\* open; SP_Finalize is never called twice.
C15_FinalizedOnceOnExit ==
    /\ finalize_calls <= 1
    /\ (pc = "exited" /\ device # "none") =>
          /\ finalize_calls = 1
          /\ device = "finalized"
          /\ cap # "open"

\* Initialisation has failed: the device settings could not be read, or the
\* run was aborted before the spectrometer controller existed
InitFailed ==
    \/ settings = "default"
    \/ (pc \in {"aborted", "exited"} /\ ~spectrometer)

\* C16: once initialisation has failed the run is aborted: no command is
\* sent to the controller and no frame is captured from then on.
C16_InitFailureAbortsRun ==
    [][ InitFailed =>
          /\ pc' \in {"aborted", "exited"}
          /\ pc' # "send_enter"
          /\ writes' <= writes
          /\ frames' <= frames
      ]_vars

\* A capture operation of the frame acquirer is under way: a discarded or
\* an averaged capture of the cycle loop, or the baseline-corrected capture
\* of an autoscaler
Capturing == pc \in {"srd_drop", "srd_avg", "as_measure", "as2_measure"}

\* C24: no capture operation raises past the acquirer: with the autoscaling
\* wavelength on the grid (so that only the capture can fail), a run is never
\* aborted from inside a capture.
C24_CaptureFailureReturned ==
    [][ (Capturing /\ OnAutoGrid(params)) => pc' # "aborted" ]_vars

\* ------------------------------------------------------------------------
\* Properties of the lamp commands of a run (checked under SpecRun)
\* ------------------------------------------------------------------------
\* The channels the lamp selector selects
Selected(cfg) ==
    IF cfg.lamp = 0 THEN {0} ELSE IF cfg.lamp = 1 THEN {1} ELSE {0, 1}

\* How many times cmd has been sent as a lamp command
TimesSent(cmd) == Cardinality({idx \in DOMAIN lamps : lamps[idx] = cmd})

\* A lamp-off command has been sent
LampOffSent == \E ch \in {0, 1} : TimesSent(CmdSLD(ch, 0)) > 0

\* C31: in a run with lamp selector 0, 1 or 2 and autoscaling flag 0 or 1,
\* once a cycle has reached an acquire command the lamp-on command of every
\* selected channel has been sent; no lamp-off command is sent while a cycle
\* is left to run or is running; and once the lamp-off step is over exactly
\* one lamp-off command has been sent per selected channel and none for a
\* channel that is not selected.
C31_LampsOnDuringCyclesOffOnceAfter ==
    (params.lamp \in {0, 1, 2} /\ params.autoscaling \in {0, 1}) =>
        /\ srd_seen > 0 =>
              \A ch \in Selected(params) : TimesSent(CmdSLD(ch, 1)) > 0
        /\ LampOffSent =>
              /\ cycle_num = params.np_of_cycle + 1
              /\ pc \notin {"cycle_start", "cmd", "srd_drop", "srd_avg"}
        /\ pc \in {"excel", "run_end"} =>
              \A ch \in {0, 1} :
                  TimesSent(CmdSLD(ch, 0)) =
                      IF ch \in Selected(params) THEN 1 ELSE 0

\* An autoscaled run of two cycles with both channels has ended: each
\* channel was switched on once, before the cycles, and off once, after
C31_Witness ==
    /\ pc = "run_end"
    /\ params.autoscaling = 1
    /\ params.np_of_cycle = 2
    /\ srd_seen > 0
    /\ lamps = <<CmdSLD(0, 1), CmdSLD(1, 1), CmdSLD(0, 0), CmdSLD(1, 0)>>

\* ------------------------------------------------------------------------
\* Properties of the frame decoder (checked under SpecDecode)
\* ------------------------------------------------------------------------
\* The low byte that goes with the q-th high byte of the row
LowByte(q) == IF 2 * q <= Len(frame) THEN frame[2 * q] ELSE 0

\* C28: every sample of a decoded row is (high << 4) | (low - 128) of its
\* byte pair, the difference low - 128 being representable in the 16-bit
\* sample type (no wraparound); a row of odd length is decoded with a low
\* byte of 0 for its last high byte.
C28_DecodeWithoutWraparound ==
    combined # None =>
        /\ Len(combined[1]) = (Len(frame) + 1) \div 2
        /\ \A q \in 1..Len(combined[1]) :
             /\ LowByte(q) - LOW_OFFSET \in 0..(WORD - 1)
             /\ combined[1][q] =
                   BitOr(frame[2 * q - 1] * HIGH_SCALE, LowByte(q) - LOW_OFFSET)

====
